---------------------------- MODULE Spec2Model ----------------------------
(***************************************************************************)
(* A model of naev's economy.c: the observation tracker (running           *)
(* statistics of the prices the player has seen), its persistence in the   *)
(* save document, and the life cycle of the nodal-analysis solver.         *)
(*                                                                         *)
(* Conventions.  C arrays are 0-based, the sequences here are 1-based; a   *)
(* pointer into an array is the index of its element and NULL is 0.        *)
(* Doubles that the code only ever fills with sums of integers (sum, sum2) *)
(* are integers.  The Price Field parameters are fixed-point numbers in    *)
(* thousandths of a credit; periods are whole STP.                         *)
(***************************************************************************)
EXTENDS Integers, Sequences, FiniteSets, TLC

(***************************************************************************)
(* Bounds of the model.                                                    *)
(***************************************************************************)
MaxTime == 2       \* the clock runs from 0 to MaxTime STP
MaxQueued == 2     \* cap on econ_queued
MaxPotential == 1  \* the solver looks for potentials in -MaxPotential..MaxPotential
MaxNebula == 1     \* nebula density and volatility are 0..MaxNebula steps of NebulaStep

(***************************************************************************)
(* Program constants.                                                      *)
(***************************************************************************)
NT_STP == 10000000  \* ntime units in one STP (ntime_convertSTU / NT_STP_STU)
NULL == 0
ECON_BASE_RES == 30      \* base resistance of a jump
ECON_SELF_RES == 3       \* resistance of a system to itself
ECON_FACTION_MOD == 100  \* 0.1, in thousandths
NaN == -1           \* sqrt of a negative number

(***************************************************************************)
(* The world: the commodity stack, the planets and the star systems.       *)
(* Relic has price 0 and so is no member of econ_comm.  Void is a system   *)
(* without planets and without jumps.                                      *)
(***************************************************************************)
commodity_stack ==
  << [name |-> "Ore",   price |-> 10],
     [name |-> "Food",  price |-> 4],
     [name |-> "Relic", price |-> 0] >>

commodity_nstack == Len(commodity_stack)

Goods == 1..commodity_nstack

\* commodity_load: the goods with price > 0, in stack order.
RECURSIVE econ_commFrom(_)
econ_commFrom(k) ==
  IF k > commodity_nstack THEN << >>
  ELSE (IF commodity_stack[k].price > 0 THEN <<k>> ELSE << >>)
       \o econ_commFrom(k + 1)

econ_comm == econ_commFrom(1)

econ_nprices == Len(econ_comm)

planet_stack ==
  << [name |-> "Alpha", commodities |-> <<1, 2>>],
     [name |-> "Beta",  commodities |-> <<2>>],
     [name |-> "Gamma", commodities |-> <<1>>] >>

Planets == 1..Len(planet_stack)

\* A system's faction is -1 when it has none; jumps are the jumps of the
\* universe as loaded (the route Sol - Vega is stored in both systems).
systems_stack ==
  << [name |-> "Sol",  planets |-> <<1, 2>>, jumps |-> <<2>>,
      nebu_density |-> 0, nebu_volatility |-> 0, faction |-> 1],
     [name |-> "Vega", planets |-> <<3>>,    jumps |-> <<1>>,
      nebu_density |-> 0, nebu_volatility |-> 0, faction |-> 2],
     [name |-> "Void", planets |-> << >>,    jumps |-> << >>,
      nebu_density |-> 0, nebu_volatility |-> 0, faction |-> -1] >>

systems_nstack == Len(systems_stack)

Systems == 1..systems_nstack

ncommodities(p) == Len(planet_stack[p].commodities)

\* The (planet, index) pairs that carry a CommodityPrice.
Fields == { <<p, i>> \in Planets \X (1..commodity_nstack) : i <= ncommodities(p) }

\* The Price Field parameters the initializer pipeline left behind
\* (thousandths of a credit; periods in STP).  Beta's Food has base price 0
\* (population 0 with population_modifier 1 multiplies the price by 0).
PriceParams(p, i) ==
  CASE p = 1 /\ i = 1 -> [price |-> 10000, planetVariation |-> 2000, planetPeriod |-> 4,
                          sysVariation |-> 1200, sysPeriod |-> 12]
    [] p = 1 /\ i = 2 -> [price |-> 4000, planetVariation |-> 1000, planetPeriod |-> 4,
                          sysVariation |-> 0, sysPeriod |-> 12]
    [] p = 2 /\ i = 1 -> [price |-> 0, planetVariation |-> 0, planetPeriod |-> 4,
                          sysVariation |-> 0, sysPeriod |-> 12]
    [] OTHER          -> [price |-> 12000, planetVariation |-> 3000, planetPeriod |-> 4,
                          sysVariation |-> 0, sysPeriod |-> 12]

\* A CommodityPrice right after economy_calcPrice has zeroed its accumulators.
NewField(p, i) ==
  [price |-> PriceParams(p, i).price,
   planetVariation |-> PriceParams(p, i).planetVariation,
   planetPeriod |-> PriceParams(p, i).planetPeriod,
   sysVariation |-> PriceParams(p, i).sysVariation,
   sysPeriod |-> PriceParams(p, i).sysPeriod,
   cnt |-> 0, sum |-> 0, sum2 |-> 0, updateTime |-> 0]

(***************************************************************************)
(* Arithmetic helpers.                                                     *)
(***************************************************************************)
\* C's conversion of a double to an integer: truncation towards zero.
Trunc(num, den) ==
  IF num >= 0 THEN num \div den ELSE -((-num) \div den)

\* sin of k twelfths of a turn, in thousandths.
SinTable == << 0, 500, 866, 1000, 866, 500, 0, -500, -866, -1000, -866, -500 >>

\* sin(2*pi*t/period) in thousandths, t = tme / NT_STP.
SinMilli(tme, period) ==
  SinTable[(((12 * tme) \div (NT_STP * period)) % 12) + 1]

\* floor(sqrt(x)) for x >= 0, by bisection on lo..hi.
RECURSIVE ISqrtIn(_, _, _)
ISqrtIn(x, lo, hi) ==
  IF lo >= hi THEN lo
  ELSE LET mid == (lo + hi + 1) \div 2
       IN IF mid * mid <= x THEN ISqrtIn(x, mid, hi) ELSE ISqrtIn(x, lo, mid - 1)

ISqrt(x) == ISqrtIn(x, 0, 40000)

Abs(x) == IF x < 0 THEN -x ELSE x

Sign(x) == IF x < 0 THEN -1 ELSE IF x > 0 THEN 1 ELSE 0

(***************************************************************************)
(* Doubles as fractions, for the arithmetic of the initializer pipeline.   *)
(* A double is n/d in lowest terms with d > 0; d = 0 stands for what a     *)
(* division by zero leaves: +inf (n = 1), -inf (n = -1) and NaN (n = 0).   *)
(***************************************************************************)
RECURSIVE GCD(_, _)
GCD(a, b) == IF b = 0 THEN a ELSE GCD(b, a % b)

\* The double n/d.
Q(n, d) ==
  IF d = 0 THEN [n |-> Sign(n), d |-> 0]
  ELSE LET g == GCD(Abs(n), Abs(d))
       IN [n |-> (Sign(d) * n) \div g, d |-> Abs(d) \div g]

Whole(n) == [n |-> n, d |-> 1]

\* a * b
QMul(a, b) ==
  IF a.d = 0 \/ b.d = 0 THEN [n |-> Sign(a.n) * Sign(b.n), d |-> 0]
  ELSE LET g1 == GCD(Abs(a.n), b.d)
           g2 == GCD(Abs(b.n), a.d)
       IN Q((a.n \div g1) * (b.n \div g2), (a.d \div g2) * (b.d \div g1))

\* 1 / a
QInv(a) == Q(a.d, a.n)

\* a + b
QAdd(a, b) ==
  IF a.d = 0 /\ b.d = 0 THEN (IF a = b THEN a ELSE [n |-> 0, d |-> 0])
  ELSE IF a.d = 0 THEN a
  ELSE IF b.d = 0 THEN b
  ELSE LET g == GCD(a.d, b.d)
       IN Q(a.n * (b.d \div g) + b.n * (a.d \div g), (a.d \div g) * b.d)

\* a > 0 and a >= 0, both false of NaN
QPositive(a) == a.n > 0

QNotNegative(a) == a.n > 0 \/ (a.n = 0 /\ a.d # 0)

(***************************************************************************)
(* State.                                                                  *)
(***************************************************************************)
VARIABLES
  now,                \* ntime_get()
  commodityPrice,     \* planet -> its commodityPrice array
  lastPurchasePrice,  \* good -> Commodity.lastPurchasePrice
  op,                 \* name of the last operation
  arg,                \* its arguments
  again,              \* it repeats the operation before it, at the same time
  res,                \* what it returned
  pre,                \* the observation state a clear, save or load started from
  saved,              \* what economy_sysSave last wrote: the writer's calls, in order
  atSave,             \* the observation state it was written from
  jumps,              \* system -> the targets of its jumps, in order
  econ_initialized,   \* econ_initialized
  econ_queued,        \* econ_queued
  econ_G,             \* econ_G: the entries of the matrix, << >> when NULL
  prices,             \* system -> its prices array, << >> when NULL
  upd,                \* what the last operation did to the solver
  env,                \* system -> its nebu_density, nebu_volatility and faction
  universe            \* the goods, planets and systems the initializer pipeline
                      \* reads; << >> where it has run and the world is the one above

vars == << now, commodityPrice, lastPurchasePrice, op, arg, again, res, pre,
           saved, atSave, jumps, econ_initialized, econ_queued, econ_G, prices,
           upd, env, universe >>

\* What the last operation did to the solver: how many times it rebuilt the
\* matrix and ran the solve pass, the queue counter and the potentials it
\* started its solve pass from, the goods whose solve failed and the goods
\* it warned about.
NoUpd == [rebuilds |-> 0, passes |-> 0, queued |-> 0, before |-> << >>,
          failed |-> {}, warned |-> {}]

\* What the operations of the observation tracker leave alone.
NoEcon ==
  /\ upd' = NoUpd
  /\ UNCHANGED << jumps, econ_initialized, econ_queued, econ_G, prices, env,
                  universe >>

\* What the actions that neither save nor load leave alone.
NoSave == UNCHANGED << saved, atSave >>

\* The observation state: every accumulator and every last purchase price.
ObsState == [cp |-> commodityPrice, lpp |-> lastPurchasePrice]

NoPre == [cp |-> << >>, lpp |-> << >>]

NoArg == [p |-> NULL, g |-> NULL, t |-> 0]

NoRes == [mean |-> 0, std |-> 0, ret |-> 0]

\* Bookkeeping of a call: its name, arguments and whether it repeats the last call.
Called(name, a) ==
  /\ op' = name
  /\ arg' = a
  /\ again' = (op = name /\ arg = a)

(***************************************************************************)
(* Lookups.                                                                *)
(***************************************************************************)
\* First index i of the planet's commodities whose name is `name`,
\* or ncommodities + 1 (the loop of economy_getPriceAtTime ran to the end).
RECURSIVE PlanetIndexFrom(_, _, _)
PlanetIndexFrom(p, name, i) ==
  IF i > ncommodities(p) THEN i
  ELSE IF commodity_stack[planet_stack[p].commodities[i]].name = name THEN i
  ELSE PlanetIndexFrom(p, name, i + 1)

PlanetIndex(p, name) == PlanetIndexFrom(p, name, 1)

\* Whether good k is in econ_comm.
Priced(k) == \E i \in 1..econ_nprices : econ_comm[i] = k

(***************************************************************************)
(* Price evaluator.                                                        *)
(***************************************************************************)
\* The price of a field at time tme, in millionths of a credit.
PriceMicro(cp, tme) ==
  cp.price * 1000
  + cp.sysVariation * SinMilli(tme, cp.sysPeriod)
  + cp.planetVariation * SinMilli(tme, cp.planetPeriod)

\* economy_getPriceAtTime( com, sys, p, tme ) on the fields cps of planet p.
economy_getPriceAtTime(cps, k, p, tme) ==
  IF ~Priced(k) THEN 0
  ELSE LET i == PlanetIndex(p, commodity_stack[k].name)
       IN IF i > ncommodities(p) THEN 0
          ELSE Trunc(PriceMicro(cps[i], tme) + 500000, 1000000)

\* economy_getPrice: the price at the current time.
economy_getPrice(cps, k, p, t) == economy_getPriceAtTime(cps, k, p, t)

(***************************************************************************)
(* Observation tracker.                                                    *)
(***************************************************************************)
\* RecordField without the store of the current time.
RecordField_NoStamp(cps, p, i, t, tp) ==
  IF cps[i].updateTime < t
  THEN LET price == economy_getPriceAtTime(cps, planet_stack[p].commodities[i], p, tp)
       IN [cps EXCEPT ![i].cnt = @ + 1,
                      ![i].sum = @ + price,
                      ![i].sum2 = @ + price * price]
  ELSE cps

\* RecordField gating on, and storing, the time the price is evaluated at.
RecordField_AtPriceTime(cps, p, i, t, tp) ==
  IF cps[i].updateTime < tp
  THEN LET price == economy_getPriceAtTime(cps, planet_stack[p].commodities[i], p, tp)
       IN [cps EXCEPT ![i].updateTime = tp,
                      ![i].cnt = @ + 1,
                      ![i].sum = @ + price,
                      ![i].sum2 = @ + price * price]
  ELSE cps

\* One pass of the recorders' loop body over field i: gate on the current
\* time t, store t, count, and add the price evaluated at time tp.
RecordField(cps, p, i, t, tp) ==
  IF cps[i].updateTime < t
  THEN LET price == economy_getPriceAtTime(cps, planet_stack[p].commodities[i], p, tp)
       IN [cps EXCEPT ![i].updateTime = t,
                      ![i].cnt = @ + 1,
                      ![i].sum = @ + price,
                      ![i].sum2 = @ + price * price]
  ELSE cps

RECURSIVE RecordFrom(_, _, _, _, _)
RecordFrom(cps, p, i, t, tp) ==
  IF i > ncommodities(p) THEN cps
  ELSE RecordFrom(RecordField(cps, p, i, t, tp), p, i + 1, t, tp)

\* economy_averageSeenPrices( p )
economy_averageSeenPrices(p) ==
  /\ commodityPrice' = [commodityPrice EXCEPT ![p] = RecordFrom(@, p, 1, now, now)]
  /\ Called("averageSeenPrices", [NoArg EXCEPT !.p = p])
  /\ res' = NoRes
  /\ pre' = NoPre
  /\ NoSave
  /\ NoEcon
  /\ UNCHANGED << now, lastPurchasePrice >>

\* economy_averageSeenPricesAtTime( p, tupdate )
economy_averageSeenPricesAtTime(p, tupdate) ==
  /\ commodityPrice' = [commodityPrice EXCEPT ![p] = RecordFrom(@, p, 1, now, tupdate)]
  /\ Called("averageSeenPricesAtTime", [NoArg EXCEPT !.p = p, !.t = tupdate])
  /\ res' = NoRes
  /\ pre' = NoPre
  /\ NoSave
  /\ NoEcon
  /\ UNCHANGED << now, lastPurchasePrice >>

\* The mean economy_getAveragePlanetPrice reports: (credits_t)(sum/cnt + 0.5).
MeanOf(cp) == Trunc(2 * cp.sum + cp.cnt, 2 * cp.cnt)

\* StdOf without the square of the mean subtracted.
StdOf_NoMeanSquare(cp) == ISqrt(cp.cnt * cp.sum2 * 10000) \div cp.cnt

\* The deviation it reports, sqrt(sum2/cnt - sum*sum/(cnt*cnt)), in hundredths.
StdOf(cp) ==
  LET n == cp.cnt * cp.sum2 - cp.sum * cp.sum
  IN IF n < 0 THEN NaN ELSE ISqrt(n * 10000) \div cp.cnt

\* An economy_getAveragePlanetPrice that reports a lookup miss with the
\* return code of a hit.
AveragePlanetPrice_MissIsHit(cps, k, p) ==
  IF ~Priced(k) THEN [mean |-> 0, std |-> 0, ret |-> 0]
  ELSE LET i == PlanetIndex(p, commodity_stack[k].name)
       IN IF i > ncommodities(p) THEN [mean |-> 0, std |-> 0, ret |-> 0]
          ELSE IF cps[i].cnt > 0
               THEN [mean |-> MeanOf(cps[i]), std |-> StdOf(cps[i]), ret |-> 0]
               ELSE [mean |-> 0, std |-> 0, ret |-> 0]

\* economy_getAveragePlanetPrice( com, p, &mean, &std ): mean, std and return code.
AveragePlanetPrice(cps, k, p) ==
  IF ~Priced(k) THEN [mean |-> 0, std |-> 0, ret |-> -1]
  ELSE LET i == PlanetIndex(p, commodity_stack[k].name)
       IN IF i > ncommodities(p) THEN [mean |-> 0, std |-> 0, ret |-> -1]
          ELSE IF cps[i].cnt > 0
               THEN [mean |-> MeanOf(cps[i]), std |-> StdOf(cps[i]), ret |-> 0]
               ELSE [mean |-> 0, std |-> 0, ret |-> 0]

economy_getAveragePlanetPrice(k, p) ==
  /\ res' = AveragePlanetPrice(commodityPrice[p], k, p)
  /\ Called("getAveragePlanetPrice", [NoArg EXCEPT !.p = p, !.g = k])
  /\ pre' = NoPre
  /\ NoSave
  /\ NoEcon
  /\ UNCHANGED << now, commodityPrice, lastPurchasePrice >>

\* A call of economy_getPriceAtTime( com, sys, p, tme ) that also stamps the
\* field it reads.
PriceAtTime_Stamps(k, p, tme) ==
  /\ res' = [NoRes EXCEPT !.mean = economy_getPriceAtTime(commodityPrice[p], k, p, tme)]
  /\ commodityPrice' =
       [commodityPrice EXCEPT ![p] =
          [i \in 1..ncommodities(p) |-> [@[i] EXCEPT !.updateTime = tme]]]
  /\ Called("getPriceAtTime", [NoArg EXCEPT !.p = p, !.g = k, !.t = tme])
  /\ pre' = NoPre
  /\ NoSave
  /\ NoEcon
  /\ UNCHANGED << now, lastPurchasePrice >>

\* A call of economy_getPriceAtTime( com, sys, p, tme ): res.mean is the
\* price it returns.
PriceAtTime(k, p, tme) ==
  /\ res' = [NoRes EXCEPT !.mean = economy_getPriceAtTime(commodityPrice[p], k, p, tme)]
  /\ Called("getPriceAtTime", [NoArg EXCEPT !.p = p, !.g = k, !.t = tme])
  /\ pre' = NoPre
  /\ NoSave
  /\ NoEcon
  /\ UNCHANGED << now, commodityPrice, lastPurchasePrice >>

\* The loops of economy_getAveragePrice over the planets j.. of the systems
\* s..: the fields of good k with cnt > 0, in the order they are met.
RECURSIVE CountedFields(_, _, _, _)
CountedFields(cps, k, s, j) ==
  IF s > systems_nstack THEN << >>
  ELSE IF j > Len(systems_stack[s].planets) THEN CountedFields(cps, k, s + 1, 1)
  ELSE LET p == systems_stack[s].planets[j]
           i == PlanetIndex(p, commodity_stack[k].name)
       IN (IF i <= ncommodities(p) /\ cps[p][i].cnt > 0 THEN << cps[p][i] >> ELSE << >>)
          \o CountedFields(cps, k, s, j + 1)

\* The product of the cnt of the fields i.. of fs.
RECURSIVE CntProduct(_, _)
CntProduct(fs, i) == IF i > Len(fs) THEN 1 ELSE fs[i].cnt * CntProduct(fs, i + 1)

\* The sum over the fields i.. of fs of (D * sum / cnt) ^ e, D a multiple of
\* every cnt: the sums av (e = 1) and av2 (e = 2) in units of 1/D and 1/D^2.
RECURSIVE SumOfMeans(_, _, _, _)
SumOfMeans(fs, D, e, i) ==
  IF i > Len(fs) THEN 0
  ELSE LET m == fs[i].sum * (D \div fs[i].cnt)
       IN (IF e = 1 THEN m ELSE m * m) + SumOfMeans(fs, D, e, i + 1)

\* economy_getAveragePrice( com, &mean, &std ): mean, std (in hundredths) and
\* return code.  av is the sum of sum/cnt and av2 the sum of
\* sum*sum/(cnt*cnt) over the counted fields; the values are exact fractions.
AveragePrice(cps, k) ==
  IF ~Priced(k) THEN [mean |-> 0, std |-> 0, ret |-> 1]
  ELSE LET fs == CountedFields(cps, k, 1, 1)
           cnt == Len(fs)
           D == CntProduct(fs, 1)
           av == SumOfMeans(fs, D, 1, 1)
           av2 == SumOfMeans(fs, D, 2, 1)
           n == cnt * av2 - av * av
       IN IF cnt > 0
          THEN [mean |-> Trunc(2 * av + cnt * D, 2 * cnt * D),
                std |-> IF n < 0 THEN NaN
                        ELSE ISqrt((10000 * n) \div (cnt * D * cnt * D)),
                ret |-> 0]
          ELSE [mean |-> 0, std |-> 0, ret |-> 0]

economy_getAveragePrice(k) ==
  /\ res' = AveragePrice(commodityPrice, k)
  /\ Called("getAveragePrice", [NoArg EXCEPT !.g = k])
  /\ pre' = NoPre
  /\ NoSave
  /\ NoEcon
  /\ UNCHANGED << now, commodityPrice, lastPurchasePrice >>

\* A clearing that resets the count and the time and leaves the sums.
ClearField_KeepsSums(cp) == [cp EXCEPT !.cnt = 0, !.updateTime = 0]

\* The accumulators of a field zeroed, its parameters kept.
ClearField(cp) == [cp EXCEPT !.cnt = 0, !.sum = 0, !.sum2 = 0, !.updateTime = 0]

\* What economy_clearKnown leaves of the fields and of the last purchase prices.
ClearedFields(cps) ==
  [p \in Planets |->
     IF \E s \in Systems : \E j \in 1..Len(systems_stack[s].planets) :
          systems_stack[s].planets[j] = p
     THEN [i \in 1..ncommodities(p) |-> ClearField(cps[p][i])]
     ELSE cps[p]]

\* A clearing that forgets the last purchase prices' loop.
ClearedPurchases_Kept(lpp) == lpp

ClearedPurchases(lpp) == [k \in Goods |-> 0]

\* economy_clearKnown()
economy_clearKnown ==
  /\ commodityPrice' = ClearedFields(commodityPrice)
  /\ lastPurchasePrice' = ClearedPurchases(lastPurchasePrice)
  /\ Called("clearKnown", NoArg)
  /\ res' = NoRes
  /\ pre' = ObsState
  /\ NoSave
  /\ NoEcon
  /\ UNCHANGED now

\* The player is on one planet at a time: whether a field of another planet
\* than p was stamped at the current instant.
Elsewhere(p) ==
  \E q \in Planets \ {p} : \E i \in 1..ncommodities(q) :
    now > 0 /\ commodityPrice[q][i].updateTime = now

\* Whether the prices of planet p were recorded at the current instant.
LandedOn(p) ==
  \E i \in 1..ncommodities(p) : now > 0 /\ commodityPrice[p][i].updateTime = now

\* The player buys good k on the planet p they are landed on: the trade
\* screen stores the price paid as the good's last purchase price.
PlayerBuys(k, p) ==
  /\ LandedOn(p)
  /\ PlanetIndex(p, commodity_stack[k].name) <= ncommodities(p)
  /\ lastPurchasePrice' =
       [lastPurchasePrice EXCEPT ![k] = economy_getPrice(commodityPrice[p], k, p, now)]
  /\ Called("buy", [NoArg EXCEPT !.p = p, !.g = k])
  /\ res' = NoRes
  /\ pre' = NoPre
  /\ NoSave
  /\ NoEcon
  /\ UNCHANGED << now, commodityPrice >>

(***************************************************************************)
(* Text: what printf writes and what atoi, atol and atof read.  A text is  *)
(* a sequence of characters; a name is written as one piece.               *)
(***************************************************************************)
DigitChars == << "0", "1", "2", "3", "4", "5", "6", "7", "8", "9" >>

RECURSIVE Digits(_)
Digits(n) ==
  IF n < 10 THEN << DigitChars[n + 1] >>
  ELSE Digits(n \div 10) \o << DigitChars[(n % 10) + 1] >>

\* "%d"
FmtD(n) == IF n < 0 THEN << "-" >> \o Digits(-n) ELSE Digits(n)

\* "%" PRIu64, of a value that is not negative
FmtU64(n) == Digits(n)

\* "%f" of a double holding a whole number: six decimals.
FmtF(x) == FmtD(x) \o << ".", "0", "0", "0", "0", "0", "0" >>

\* "%s"
FmtS(name) == << name >>

\* The value of a digit character, -1 for any other character.
DigitVal(c) ==
  IF \E d \in 1..10 : DigitChars[d] = c
  THEN (CHOOSE d \in 1..10 : DigitChars[d] = c) - 1
  ELSE -1

\* The number the digits of s from position i on spell, after acc.
RECURSIVE ReadDigits(_, _, _)
ReadDigits(s, i, acc) ==
  IF i > Len(s) \/ DigitVal(s[i]) < 0 THEN acc
  ELSE ReadDigits(s, i + 1, 10 * acc + DigitVal(s[i]))

\* The position after the digits of s that start at position i.
RECURSIVE SkipDigits(_, _)
SkipDigits(s, i) ==
  IF i > Len(s) \/ DigitVal(s[i]) < 0 THEN i ELSE SkipDigits(s, i + 1)

\* atoi and atol: an optional sign, then digits up to the first other character.
Atoi(s) ==
  IF Len(s) > 0 /\ s[1] = "-" THEN -ReadDigits(s, 2, 0) ELSE ReadDigits(s, 1, 0)

Atol(s) == Atoi(s)

\* atof: the whole part and, after a point, the decimals.  A text with
\* decimals other than zeros reads as a number that is not whole.
Atof(s) ==
  LET neg == Len(s) > 0 /\ s[1] = "-"
      first == IF neg THEN 2 ELSE 1
      dot == SkipDigits(s, first)
      whole == ReadDigits(s, first, 0)
      frac == IF dot <= Len(s) /\ s[dot] = "." THEN ReadDigits(s, dot + 1, 0) ELSE 0
  IN IF frac = 0 THEN (IF neg THEN -whole ELSE whole)
     ELSE [neg |-> neg, whole |-> whole, decimals |-> frac]

(***************************************************************************)
(* The XML writer and reader.  The writer's output is the sequence of its  *)
(* calls; the reader builds the tree of nodes from it.                     *)
(***************************************************************************)
xmlw_startElem(name) == [t |-> "start", name |-> name, val |-> << >>]

xmlw_attr(name, val) == [t |-> "attr", name |-> name, val |-> val]

xmlw_str(val) == [t |-> "str", name |-> "", val |-> val]

xmlw_endElem == [t |-> "end", name |-> "", val |-> << >>]

\* The reader sees the elements the writer wrote; an element is named by the
\* position of the call that opened it, and the parent of everything by 0.

\* The number of elements open after each of the calls lo..hi, `open` being
\* open before them.
RECURSIVE XmlDepths(_, _, _, _)
XmlDepths(toks, lo, hi, open) ==
  IF lo > hi THEN << >>
  ELSE IF lo = hi
       THEN << open + (CASE toks[lo].t = "start" -> 1
                         [] toks[lo].t = "end" -> -1
                         [] OTHER -> 0) >>
       ELSE LET mid == (lo + hi) \div 2
                left == XmlDepths(toks, lo, mid, open)
            IN left \o XmlDepths(toks, mid + 1, hi, left[Len(left)])

\* The document parsed from what the writer wrote.
XmlParse(toks) == [toks |-> toks, depth |-> XmlDepths(toks, 1, Len(toks), 0)]

\* The number of elements open after call j of document doc.
XmlDepth(doc, j) == IF j = 0 THEN 0 ELSE doc.depth[j]

MinOf(S) == CHOOSE x \in S : \A y \in S : x <= y

\* The position of the call that closes element e (past the end if none does).
XmlClose(doc, e) ==
  LET C == { j \in (e + 1)..Len(doc.toks) :
               doc.toks[j].t = "end" /\ XmlDepth(doc, j) = XmlDepth(doc, e) - 1 }
  IN IF e = 0 \/ C = {} THEN Len(doc.toks) + 1 ELSE MinOf(C)

\* The calls made directly inside element e.
XmlInside(doc, e) ==
  { j \in (e + 1)..(XmlClose(doc, e) - 1) :
      XmlDepth(doc, j) - (IF doc.toks[j].t = "start" THEN 1 ELSE 0) = XmlDepth(doc, e) }

RECURSIVE InOrder(_)
InOrder(S) == IF S = {} THEN << >> ELSE << MinOf(S) >> \o InOrder(S \ { MinOf(S) })

\* The node of element e: its name, its attributes, its text and its child
\* elements in order (xmlChildrenNode and the chain of next nodes).
XmlNode(doc, e) ==
  LET inside == XmlInside(doc, e)
      text == { j \in inside : doc.toks[j].t = "str" }
  IN [name |-> IF e = 0 THEN "" ELSE doc.toks[e].name,
      attrs |-> { [name |-> doc.toks[j].name, val |-> doc.toks[j].val] :
                  j \in { k \in inside : doc.toks[k].t = "attr" } },
      text |-> IF text = {} THEN << >> ELSE doc.toks[MinOf(text)].val,
      children |-> InOrder({ j \in inside : doc.toks[j].t = "start" })]

\* xml_isNode
xml_isNode(node, name) == node.name = name

\* xmlr_attr: whether the node has attribute `name`, and its text.
HasAttr(node, name) == \E a \in node.attrs : a.name = name

AttrOf(node, name) == (CHOOSE a \in node.attrs : a.name = name).val

\* xml_raw: the text of the node.
xml_raw(node) == node.text

(***************************************************************************)
(* economy_sysSave.                                                        *)
(***************************************************************************)
\* A save that writes a lastPurchase element for every good.
RECURSIVE SaveLastPurchases_All(_, _)
SaveLastPurchases_All(lpp, i) ==
  IF i > commodity_nstack THEN << >>
  ELSE << xmlw_startElem("lastPurchase"),
          xmlw_attr("name", FmtS(commodity_stack[i].name)),
          xmlw_str(FmtU64(lpp[i])),
          xmlw_endElem >>
       \o SaveLastPurchases_All(lpp, i + 1)

\* The lastPurchase elements of the goods from i on.
RECURSIVE SaveLastPurchases(_, _)
SaveLastPurchases(lpp, i) ==
  IF i > commodity_nstack THEN << >>
  ELSE (IF lpp[i] > 0
        THEN << xmlw_startElem("lastPurchase"),
                xmlw_attr("name", FmtS(commodity_stack[i].name)),
                xmlw_str(FmtU64(lpp[i])),
                xmlw_endElem >>
        ELSE << >>)
       \o SaveLastPurchases(lpp, i + 1)

\* The loop over the commodities k.. of planet p of system s: what it writes
\* and the two flags as it leaves them.
RECURSIVE SaveCommodities(_, _, _, _, _, _)
SaveCommodities(cps, s, p, k, doneSys, donePlanet) ==
  IF k > ncommodities(p)
  THEN [out |-> << >>, doneSys |-> doneSys, donePlanet |-> donePlanet]
  ELSE LET cp == cps[p][k]
       IN IF cp.cnt > 0
          THEN LET rest == SaveCommodities(cps, s, p, k + 1, 1, 1)
               IN [rest EXCEPT !.out =
                     (IF doneSys = 0
                      THEN << xmlw_startElem("system"),
                              xmlw_attr("name", FmtS(systems_stack[s].name)) >>
                      ELSE << >>)
                     \o (IF donePlanet = 0
                         THEN << xmlw_startElem("planet"),
                                 xmlw_attr("name", FmtS(planet_stack[p].name)) >>
                         ELSE << >>)
                     \o << xmlw_startElem("commodity"),
                           xmlw_attr("name",
                             FmtS(commodity_stack[planet_stack[p].commodities[k]].name)),
                           xmlw_attr("sum", FmtF(cp.sum)),
                           xmlw_attr("sum2", FmtF(cp.sum2)),
                           xmlw_attr("cnt", FmtD(cp.cnt)),
                           xmlw_attr("time", FmtU64(cp.updateTime)),
                           xmlw_endElem >>
                     \o @]
          ELSE SaveCommodities(cps, s, p, k + 1, doneSys, donePlanet)

\* The loop over the planets j.. of system s.
RECURSIVE SavePlanets(_, _, _, _)
SavePlanets(cps, s, j, doneSys) ==
  IF j > Len(systems_stack[s].planets)
  THEN [out |-> << >>, doneSys |-> doneSys]
  ELSE LET p == systems_stack[s].planets[j]
           one == SaveCommodities(cps, s, p, 1, doneSys, 0)
           rest == SavePlanets(cps, s, j + 1, one.doneSys)
       IN [rest EXCEPT !.out =
             one.out \o (IF one.donePlanet = 1 THEN << xmlw_endElem >> ELSE << >>) \o @]

\* The loop over the systems i..
RECURSIVE SaveSystems(_, _)
SaveSystems(cps, i) ==
  IF i > systems_nstack THEN << >>
  ELSE LET one == SavePlanets(cps, i, 1, 0)
       IN one.out \o (IF one.doneSys = 1 THEN << xmlw_endElem >> ELSE << >>)
          \o SaveSystems(cps, i + 1)

\* Everything economy_sysSave writes.
SaveDocument(cps, lpp) ==
  << xmlw_startElem("economy") >>
  \o SaveLastPurchases(lpp, 1)
  \o SaveSystems(cps, 1)
  \o << xmlw_endElem >>

\* economy_sysSave( writer )
economy_sysSave ==
  /\ saved' = SaveDocument(commodityPrice, lastPurchasePrice)
  /\ atSave' = ObsState
  /\ pre' = ObsState
  /\ Called("sysSave", NoArg)
  /\ res' = NoRes
  /\ UNCHANGED << now, commodityPrice, lastPurchasePrice >>
  /\ NoEcon

(***************************************************************************)
(* economy_sysLoad.                                                        *)
(***************************************************************************)
\* planet_get and commodity_get: the index of the name in the stack, or NULL.
planet_get(name) ==
  IF \E p \in Planets : planet_stack[p].name = name
  THEN CHOOSE p \in Planets : planet_stack[p].name = name
  ELSE NULL

commodity_get(name) ==
  IF \E k \in Goods : commodity_stack[k].name = name
  THEN CHOOSE k \in Goods :
         /\ commodity_stack[k].name = name
         /\ \A h \in 1..(k - 1) : commodity_stack[h].name # name
  ELSE NULL

\* The name a node carries in its "name" attribute.
NameOf(node) == AttrOf(node, "name")[1]

\* What is loaded so far: the fields, the last purchase prices, and whether
\* a NULL pointer was dereferenced.
Loaded(cps, lpp, fault) == [cp |-> cps, lpp |-> lpp, fault |-> fault]

\* A loader that does not read the "time" attribute.
LoadCommodity_NoTime(acc, pl, node) ==
  IF pl = NULL THEN [acc EXCEPT !.fault = TRUE]
  ELSE LET i == PlanetIndex(pl, NameOf(node))
       IN IF i > ncommodities(pl) THEN acc
          ELSE [acc EXCEPT !.cp[pl][i].sum = Atof(AttrOf(node, "sum")),
                           !.cp[pl][i].sum2 = Atof(AttrOf(node, "sum2")),
                           !.cp[pl][i].cnt = Atoi(AttrOf(node, "cnt"))]

\* One commodity node under the planet node of planet pl.
LoadCommodity(acc, pl, node) ==
  IF pl = NULL THEN [acc EXCEPT !.fault = TRUE]
  ELSE LET i == PlanetIndex(pl, NameOf(node))
           old == acc.cp[pl][i]
           new == [old EXCEPT
                     !.sum = IF HasAttr(node, "sum")
                             THEN Atof(AttrOf(node, "sum")) ELSE @,
                     !.sum2 = IF HasAttr(node, "sum2")
                              THEN Atof(AttrOf(node, "sum2")) ELSE @,
                     !.cnt = IF HasAttr(node, "cnt")
                             THEN Atoi(AttrOf(node, "cnt")) ELSE @,
                     !.updateTime = IF HasAttr(node, "time")
                                    THEN Atol(AttrOf(node, "time")) ELSE @]
       IN IF i > ncommodities(pl) THEN acc
          ELSE [acc EXCEPT !.cp[pl][i] = new]

\* The children j.. of a planet node.
RECURSIVE LoadCommodities(_, _, _, _, _)
LoadCommodities(acc, pl, doc, kids, j) ==
  IF j > Len(kids) \/ acc.fault THEN acc
  ELSE LET nodeCommodity == XmlNode(doc, kids[j])
       IN LoadCommodities(
            IF xml_isNode(nodeCommodity, "commodity")
            THEN LoadCommodity(acc, pl, nodeCommodity) ELSE acc,
            pl, doc, kids, j + 1)

\* The children j.. of a system node.
RECURSIVE LoadPlanets(_, _, _, _)
LoadPlanets(acc, doc, kids, j) ==
  IF j > Len(kids) \/ acc.fault THEN acc
  ELSE LET nodeAsset == XmlNode(doc, kids[j])
       IN LoadPlanets(
            IF xml_isNode(nodeAsset, "planet")
            THEN LoadCommodities(acc, planet_get(NameOf(nodeAsset)), doc,
                                 nodeAsset.children, 1)
            ELSE acc,
            doc, kids, j + 1)

\* One lastPurchase node.
LoadLastPurchase(acc, node) ==
  IF ~HasAttr(node, "name") THEN acc
  ELSE LET c == commodity_get(NameOf(node))
       IN IF c = NULL THEN [acc EXCEPT !.fault = TRUE]
          ELSE [acc EXCEPT !.lpp[c] = Atol(xml_raw(node))]

\* The children j.. of an economy node.
RECURSIVE LoadEconomy(_, _, _, _)
LoadEconomy(acc, doc, kids, j) ==
  IF j > Len(kids) \/ acc.fault THEN acc
  ELSE LET cur == XmlNode(doc, kids[j])
       IN LoadEconomy(
            IF xml_isNode(cur, "system")
            THEN LoadPlanets(acc, doc, cur.children, 1)
            ELSE IF xml_isNode(cur, "lastPurchase")
                 THEN LoadLastPurchase(acc, cur)
                 ELSE acc,
            doc, kids, j + 1)

\* The children j.. of the parent.
RECURSIVE LoadParent(_, _, _, _)
LoadParent(acc, doc, kids, j) ==
  IF j > Len(kids) \/ acc.fault THEN acc
  ELSE LET node == XmlNode(doc, kids[j])
       IN LoadParent(
            IF xml_isNode(node, "economy")
            THEN LoadEconomy(acc, doc, node.children, 1) ELSE acc,
            doc, kids, j + 1)

\* A loader that does not call economy_clearKnown first.
SysLoad_NoClear(cps, lpp, doc) ==
  LoadParent(Loaded(cps, lpp, FALSE), doc, XmlNode(doc, 0).children, 1)

\* What economy_sysLoad( parent ) makes of the observation state, the
\* parent's content being the document doc.
SysLoad(cps, lpp, doc) ==
  LoadParent(Loaded(ClearedFields(cps), ClearedPurchases(lpp), FALSE),
             doc, XmlNode(doc, 0).children, 1)

\* economy_sysLoad( parent ), of the document last saved.  res.ret is the 0
\* it returns, or -1 when it dereferenced a NULL pointer and did not return.
economy_sysLoad ==
  /\ saved # << >>
  /\ LET got == SysLoad(commodityPrice, lastPurchasePrice, XmlParse(saved))
     IN /\ commodityPrice' = got.cp
        /\ lastPurchasePrice' = got.lpp
        /\ res' = [NoRes EXCEPT !.ret = IF got.fault THEN -1 ELSE 0]
  /\ pre' = ObsState
  /\ Called("sysLoad", NoArg)
  /\ UNCHANGED << now, saved, atSave >>
  /\ NoEcon

\* A name that nothing in the world carries.
Unknown == "Atlantis"

\* The calls of the writer that wrote a "name" attribute.
NameAttrs(toks) ==
  { j \in 1..Len(toks) : toks[j].t = "attr" /\ toks[j].name = "name" }

\* The data of the game changed since the save was written: the system,
\* planet or good that one entry of the saved document names is no longer in
\* the world.
SaveOutdated ==
  /\ \A i \in NameAttrs(saved) : saved[i].val # FmtS(Unknown)
  /\ \E j \in NameAttrs(saved) :
       /\ saved' = [saved EXCEPT ![j].val = FmtS(Unknown)]
       /\ Called("outdated", [NoArg EXCEPT !.t = j])
  /\ res' = NoRes
  /\ pre' = NoPre
  /\ NoEcon
  /\ UNCHANGED << now, commodityPrice, lastPurchasePrice, atSave >>

(***************************************************************************)
(* The potential solver.                                                   *)
(* Resistances are in thousandths.  Conductances are in units of 1/Siemens:*)
(* exact for the resistances 27, 30 and 33 and for ECON_SELF_RES.          *)
(***************************************************************************)
Siemens == 2 * 27 * 5 * 11

\* areEnemies and areAllies: the standings of the factions of the world.
\* Factions 1 and 2 are enemies, a faction is its own ally, and faction 3 has
\* no standing with the others.
areEnemies(a, b) == {a, b} = {1, 2}

areAllies(a, b) == a = b

\* An econ_calcJumpR that lowers the resistance between enemies.
econ_calcJumpR_EnemiesCloser(A, B) ==
  LET base == ECON_BASE_RES * 1000
             + (A.nebu_density + B.nebu_density)
             + 10 * (A.nebu_volatility + B.nebu_volatility)
  IN IF A.faction # -1 /\ B.faction # -1
        /\ (areEnemies(A.faction, B.faction) \/ areAllies(A.faction, B.faction))
     THEN base - ECON_FACTION_MOD * ECON_BASE_RES
     ELSE base

\* econ_calcJumpR( A, B ), in thousandths; A and B are what the two pointers
\* point to.
econ_calcJumpR(A, B) ==
  LET base == ECON_BASE_RES * 1000
             + (A.nebu_density + B.nebu_density)
             + 10 * (A.nebu_volatility + B.nebu_volatility)
      fa == A.faction
      fb == B.faction
  IN IF fa # -1 /\ fb # -1
     THEN IF areEnemies(fa, fb) THEN base + ECON_FACTION_MOD * ECON_BASE_RES
          ELSE IF areAllies(fa, fb) THEN base - ECON_FACTION_MOD * ECON_BASE_RES
          ELSE base
     ELSE base

\* econ_calcSysI( dt, sys, price )
econ_calcSysI(dt, sys, price) == 0

\* cs_entry( M, i, j, x ): one entry of the matrix in triplet form.
cs_entry(i, j, x) == [i |-> i, j |-> j, x |-> x]

\* The loop of econ_createGMatrix over the jumps j.. of system i: the entries
\* it makes and what it adds to Rsum.
RECURSIVE JumpEntries(_, _, _)
JumpEntries(jmp, i, j) ==
  IF j > Len(jmp[i]) THEN [M |-> << >>, Rsum |-> 0]
  ELSE LET target == jmp[i][j]
           R == Trunc(Siemens * 1000, econ_calcJumpR(env[i], env[target]))
           rest == JumpEntries(jmp, i, j + 1)
       IN [M |-> << cs_entry(i, target, -R), cs_entry(target, i, -R) >> \o rest.M,
           Rsum |-> R + rest.Rsum]

\* The loop over the systems without the dampening term of the diagonal.
RECURSIVE SystemEntries_G_NoSelf(_, _)
SystemEntries_G_NoSelf(jmp, i) ==
  IF i > systems_nstack THEN << >>
  ELSE LET row == JumpEntries(jmp, i, 1)
       IN row.M
          \o << cs_entry(i, i, row.Rsum) >>
          \o SystemEntries_G_NoSelf(jmp, i + 1)

\* The loop of econ_createGMatrix over the systems i..
RECURSIVE SystemEntries_G(_, _)
SystemEntries_G(jmp, i) ==
  IF i > systems_nstack THEN << >>
  ELSE LET row == JumpEntries(jmp, i, 1)
       IN row.M
          \o << cs_entry(i, i, row.Rsum + Siemens \div ECON_SELF_RES) >>
          \o SystemEntries_G(jmp, i + 1)

\* econ_createGMatrix(): the new econ_G.  cs_compress keeps every entry, and
\* entries at the same place add up.
econ_createGMatrix(jmp) == SystemEntries_G(jmp, 1)

\* Row i of G times x, over the entries k.. of G.
RECURSIVE RowTimes(_, _, _, _)
RowTimes(G, i, x, k) ==
  IF k > Len(G) THEN 0
  ELSE (IF G[k].i = i THEN G[k].x * x[G[k].j] ELSE 0) + RowTimes(G, i, x, k + 1)

\* cs_qrsol( order, G, X ): on success it returns 1 and X holds the x with
\* G x = X; when it fails (ok is FALSE: it could not get its workspace) it
\* returns 0 and leaves X as it was.
cs_qrsol(order, G, X, ok) ==
  IF ok
  THEN [ret |-> 1,
        X |-> CHOOSE x \in [Systems -> (-MaxPotential)..MaxPotential] :
                \A i \in Systems : RowTimes(G, i, x, 1) = X[i]]
  ELSE [ret |-> 0, X |-> X]

\* The solver's state.
Econ ==
  [initialized |-> econ_initialized, queued |-> econ_queued, G |-> econ_G,
   prices |-> prices, upd |-> [NoUpd EXCEPT !.queued = econ_queued]]

\* The loop of economy_update over the goods j..: the potentials it leaves
\* and the goods it warned about.
RECURSIVE UpdateGoods(_, _, _, _, _)
UpdateGoods(G, pr, dt, oks, j) ==
  IF j > econ_nprices THEN [prices |-> pr, warned |-> {}]
  ELSE LET X == [i \in Systems |-> econ_calcSysI(dt, i, j)]
           sol == cs_qrsol(3, G, X, oks[j])
           scale == 1
           offset == 1
           rest == UpdateGoods(G,
                               [i \in Systems |->
                                  [pr[i] EXCEPT ![j] = sol.X[i] * scale + offset]],
                               dt, oks, j + 1)
       IN [rest EXCEPT !.warned = @ \cup (IF sol.ret # 1 THEN {j} ELSE {})]

\* An update that does not reset the queue counter.
Updated_KeepsQueue(e, dt, oks) ==
  IF e.initialized = 0 THEN e
  ELSE LET u == UpdateGoods(e.G, e.prices, dt, oks, 1)
       IN [e EXCEPT !.prices = u.prices,
                    !.upd.passes = @ + 1,
                    !.upd.before = e.prices,
                    !.upd.failed = { j \in 1..econ_nprices : ~oks[j] },
                    !.upd.warned = u.warned]

\* economy_update( dt ) on solver state e; oks[j] says whether the solve of
\* good j succeeds.  The work vector is taken to be allocated.
Updated(e, dt, oks) ==
  IF e.initialized = 0 THEN e
  ELSE LET u == UpdateGoods(e.G, e.prices, dt, oks, 1)
       IN [e EXCEPT !.prices = u.prices,
                    !.queued = 0,
                    !.upd.passes = @ + 1,
                    !.upd.before = e.prices,
                    !.upd.failed = { j \in 1..econ_nprices : ~oks[j] },
                    !.upd.warned = u.warned]

\* economy_refresh() on solver state e, in the universe with jumps jmp.
Refreshed(e, jmp, oks) ==
  IF e.initialized = 0 THEN e
  ELSE Updated([e EXCEPT !.G = econ_createGMatrix(jmp), !.upd.rebuilds = @ + 1],
               0, oks)

\* The solver's state becomes e.
Becomes(e) ==
  /\ econ_initialized' = e.initialized
  /\ econ_queued' = e.queued
  /\ econ_G' = e.G
  /\ prices' = e.prices
  /\ upd' = e.upd

\* What the operations of the solver leave alone.
NoObs ==
  /\ res' = NoRes
  /\ pre' = NoPre
  /\ UNCHANGED << now, commodityPrice, lastPurchasePrice, saved, atSave, env,
                  universe >>

\* Whether each solve succeeds: one choice per priced good.
Oks == [1..econ_nprices -> BOOLEAN]

\* economy_init()
economy_init(oks) ==
  /\ Becomes(IF econ_initialized # 0 THEN Econ
             ELSE Refreshed([Econ EXCEPT
                               !.prices = [s \in Systems |->
                                             [j \in 1..econ_nprices |-> 0]],
                               !.initialized = 1],
                            jumps, oks))
  /\ Called("init", NoArg)
  /\ NoObs
  /\ UNCHANGED jumps

\* economy_addQueuedUpdate()
economy_addQueuedUpdate ==
  /\ econ_queued < MaxQueued
  /\ Becomes([Econ EXCEPT !.queued = @ + 1])
  /\ Called("addQueuedUpdate", NoArg)
  /\ NoObs
  /\ UNCHANGED jumps

\* An economy_execQueued that takes the requests off the queue whether or
\* not the economy is initialized.
economy_execQueued_Drops(oks) ==
  /\ Becomes(IF econ_queued # 0 THEN [Refreshed(Econ, jumps, oks) EXCEPT !.queued = 0]
             ELSE Econ)
  /\ Called("execQueued", NoArg)
  /\ NoObs
  /\ UNCHANGED jumps

\* economy_execQueued()
economy_execQueued(oks) ==
  /\ Becomes(IF econ_queued # 0 THEN Refreshed(Econ, jumps, oks) ELSE Econ)
  /\ Called("execQueued", NoArg)
  /\ NoObs
  /\ UNCHANGED jumps

\* economy_refresh()
economy_refresh(oks) ==
  /\ Becomes(Refreshed(Econ, jumps, oks))
  /\ Called("refresh", NoArg)
  /\ NoObs
  /\ UNCHANGED jumps

\* An economy_update that folds the potentials into the base prices.
economy_update_IntoFields(dt, oks) ==
  /\ Becomes(Updated(Econ, dt, oks))
  /\ Called("update", [NoArg EXCEPT !.t = dt])
  /\ commodityPrice' =
       [p \in Planets |->
          [i \in 1..ncommodities(p) |->
             [commodityPrice[p][i] EXCEPT !.price = @ * (1 + econ_initialized)]]]
  /\ res' = NoRes
  /\ pre' = NoPre
  /\ UNCHANGED << now, lastPurchasePrice, saved, atSave, env, jumps, universe >>

\* economy_update( dt )
economy_update(dt, oks) ==
  /\ Becomes(Updated(Econ, dt, oks))
  /\ Called("update", [NoArg EXCEPT !.t = dt])
  /\ NoObs
  /\ UNCHANGED jumps

\* economy_destroy()
economy_destroy ==
  /\ Becomes(IF econ_initialized = 0 THEN Econ
             ELSE [Econ EXCEPT !.prices = [s \in Systems |-> << >>],
                               !.G = << >>,
                               !.initialized = 0])
  /\ Called("destroy", NoArg)
  /\ NoObs
  /\ UNCHANGED jumps

\* The routes the universe can gain or lose: Sol - Vega, stored in each of
\* the two systems, and Vega - Void, stored in Vega only.
Routes == { <<1, 2>>, <<2, 1>>, <<2, 3>> }

\* The universe changes: the jump from system a to system b appears or
\* disappears.
UniverseChanges(a, b) ==
  /\ <<a, b>> \in Routes
  /\ LET has == { jumps[a][j] : j \in 1..Len(jumps[a]) }
     IN jumps' = [jumps EXCEPT ![a] = InOrder(IF b \in has THEN has \ {b}
                                               ELSE has \cup {b})]
  /\ Becomes(Econ)
  /\ Called("universe", [NoArg EXCEPT !.p = a, !.g = b])
  /\ NoObs

(***************************************************************************)
(* The initializer pipeline.  The universe u it reads has the goods        *)
(* u.commodities, the planets u.planets and the systems u.systems; planets *)
(* and systems name each other by index.  cps[p][i] is the CommodityPrice  *)
(* of the i-th good of planet p, its parameters fractions.                 *)
(***************************************************************************)
RefPopulation == 100000000  \* the 1e8 of log(1e8)

\* The value of the first modifier of the list cm from k on named `name`, 1
\* if there is none.
RECURSIVE Modifier(_, _, _)
Modifier(cm, name, k) ==
  IF k > Len(cm) THEN Whole(1)
  ELSE IF cm[k].name = name THEN cm[k].value
  ELSE Modifier(cm, name, k + 1)

\* tanh( ( log(population) - log(1e8) ) / 2 ), which is
\* (population - 1e8) / (population + 1e8); -1 without population.
PopulationFactor(population) ==
  IF population > 0
  THEN Q(population - RefPopulation, population + RefPopulation)
  ELSE Whole(-1)

\* economy_calcPrice( planet, commodity, commodityPrice ): the field it leaves.
\* planet.gfx_exterior is strlen(planet->gfx_exterior) less
\* strlen(PLANET_GFX_EXTERIOR_PATH), taken to be 19 or more.
economy_calcPrice(planet, commodity, cp) ==
  LET class == Modifier(commodity.planet_modifier, planet.class, 1)
      gfx == QAdd(Whole(1), Q(planet.gfx_exterior - 19, 100))
      factor == PopulationFactor(planet.population)
      faction == Modifier(commodity.planet_modifier, planet.faction, 1)
      presence == QAdd(Whole(1), Q(-planet.presenceRange, 30))
  IN [cp EXCEPT
        !.price = QMul(QMul(QMul(QMul(@, class),
                                 QAdd(Whole(1), QMul(factor, commodity.population_modifier))),
                            faction),
                       presence),
        !.planetVariation = QMul(Q(1, 2), QAdd(Q(1, 2), QMul(factor, Q(-1, 4)))),
        !.sysVariation = Whole(0),
        !.sum = 0,
        !.sum2 = 0,
        !.cnt = 0,
        !.updateTime = 0,
        !.planetPeriod = QMul(QMul(QMul(Whole(commodity.period + 100), gfx),
                                   QAdd(Whole(1), QMul(factor, Q(1, 2)))),
                              QInv(presence))]

\* The fields cps with those of the planets of system sys replaced by the
\* fields new has for them.
OnPlanetsOf(cps, sys, new) ==
  [p \in DOMAIN cps |->
     IF \E j \in 1..Len(sys.planets) : sys.planets[j] = p THEN new[p] ELSE cps[p]]

\* The name of the i-th good of planet p.
GoodName(u, p, i) == u.commodities[u.planets[p].commodities[i]].name

\* The first loop of economy_initialiseCommodityPrices, from system k on.
RECURSIVE CalcPricesFrom(_, _, _)
CalcPricesFrom(u, cps, k) ==
  IF k > Len(u.systems) THEN cps
  ELSE LET calc == [p \in DOMAIN cps |-> [i \in 1..Len(cps[p]) |->
                         economy_calcPrice(u.planets[p],
                                           u.commodities[u.planets[p].commodities[i]],
                                           cps[p][i])]]
       IN CalcPricesFrom(u, OnPlanetsOf(cps, u.systems[k], calc), k + 1)

\* A first loop that leaves out the first system.
CalcPrices_SkipFirst(u, cps) == CalcPricesFrom(u, cps, 2)

CalcPrices(u, cps) == CalcPricesFrom(u, cps, 1)

\* The start of the first loop body of economy_modifySystemCommodityPrice:
\* the field of a planet of sys scaled by the attributes of sys.
ScaledBySystem(sys, cp) ==
  [cp EXCEPT
     !.price = QMul(QMul(QMul(@, QAdd(Whole(1), Q(sys.radius, 200000))),
                         QAdd(Whole(1), Q(sys.nebu_volatility, 6000))),
                    QAdd(Whole(1), Q(sys.interference, 10000))),
     !.planetPeriod = QMul(@, QInv(QAdd(Whole(1), Q(-sys.radius, 200000)))),
     !.planetVariation = QMul(@, QInv(QAdd(Whole(1), Q(-sys.radius, 300000)))),
     !.sysPeriod = Q(2000, Len(sys.jumps) + 1)]

\* The fields of the planets j.. of sys, in the order of the loops, each
\* with the name of its good.
RECURSIVE FieldsOfSystem(_, _, _, _)
FieldsOfSystem(u, cps, sys, j) ==
  IF j > Len(sys.planets) THEN << >>
  ELSE LET p == sys.planets[j]
       IN [i \in 1..Len(cps[p]) |-> [name |-> GoodName(u, p, i), cp |-> cps[p][i]]]
          \o FieldsOfSystem(u, cps, sys, j + 1)

\* The index of the first entry of avprice named `name`, 0 if there is none.
AvIndex(avprice, name) ==
  LET hit == { k \in 1..Len(avprice) : avprice[k].name = name }
  IN IF hit = {} THEN 0 ELSE MinOf(hit)

\* The rest of the first loop of economy_modifySystemCommodityPrice: avprice
\* after the fields k.. of fs are added (updateTime counts them).  Of an
\* avprice entry the pipeline reads the price, the planetVariation and the
\* sum; its periods and sysVariation are summed and never read.
RECURSIVE Accumulated(_, _, _)
Accumulated(fs, k, avprice) ==
  IF k > Len(fs) THEN avprice
  ELSE LET f == fs[k]
           a == AvIndex(avprice, f.name)
       IN Accumulated(fs, k + 1,
            IF a # 0
            THEN [avprice EXCEPT
                    ![a].updateTime = @ + 1,
                    ![a].price = QAdd(@, f.cp.price),
                    ![a].planetVariation = QAdd(@, f.cp.planetVariation)]
            ELSE Append(avprice,
                        [name |-> f.name, updateTime |-> 1, price |-> f.cp.price,
                         planetVariation |-> f.cp.planetVariation, sum |-> Whole(0)]))

\* economy_modifySystemCommodityPrice( sys ), sys being system s: the fields
\* and the averagePrice of the systems after it.
economy_modifySystemCommodityPrice(u, st, s) ==
  LET sys == u.systems[s]
      scale == [p \in DOMAIN st.cp |-> [i \in 1..Len(st.cp[p]) |->
                  ScaledBySystem(sys, st.cp[p][i])]]
      scaled == OnPlanetsOf(st.cp, sys, scale)
      sums == Accumulated(FieldsOfSystem(u, scaled, sys, 1), 1, << >>)
      avprice == [k \in 1..Len(sums) |->
                    [sums[k] EXCEPT
                       !.price = QMul(@, Q(1, sums[k].updateTime)),
                       !.planetVariation = QMul(@, Q(1, sums[k].updateTime))]]
      blend == [p \in DOMAIN scaled |-> [i \in 1..Len(scaled[p]) |->
                  LET k == AvIndex(avprice, GoodName(u, p, i))
                  IN [scaled[p][i] EXCEPT
                        !.price = QAdd(QMul(@, Q(1, 4)), QMul(Q(3, 4), avprice[k].price)),
                        !.sysVariation = QMul(Q(1, 5), avprice[k].planetVariation)]]]
  IN [cp |-> OnPlanetsOf(scaled, sys, blend),
      averagePrice |-> [st.averagePrice EXCEPT ![s] = avprice]]

\* The loop of economy_smoothCommodityPrice over the jumps i.. of sys for the
\* good `name`: the sum of the neighbours' average prices and their number.
RECURSIVE NeighbourPrices(_, _, _, _)
NeighbourPrices(st, sys, name, i) ==
  IF i > Len(sys.jumps) THEN [price |-> Whole(0), n |-> 0]
  ELSE LET neighbour == st.averagePrice[sys.jumps[i]]
           k == AvIndex(neighbour, name)
           rest == NeighbourPrices(st, sys, name, i + 1)
       IN IF k # 0
          THEN [price |-> QAdd(neighbour[k].price, rest.price), n |-> rest.n + 1]
          ELSE rest

\* A smoothing that overwrites the average of the system with the mean of its
\* neighbours, which the systems after it then read.
economy_smoothCommodityPrice_InPlace(u, st, s) ==
  LET sys == u.systems[s]
      avprice == st.averagePrice[s]
  IN [st EXCEPT !.averagePrice[s] =
        [j \in 1..Len(avprice) |->
           LET near == NeighbourPrices(st, sys, avprice[j].name, 1)
               mean == IF near.n # 0 THEN QMul(near.price, Q(1, near.n))
                       ELSE avprice[j].price
           IN [avprice[j] EXCEPT !.sum = mean, !.price = mean]]]

\* economy_smoothCommodityPrice( sys )
economy_smoothCommodityPrice(u, st, s) ==
  LET sys == u.systems[s]
      avprice == st.averagePrice[s]
  IN [st EXCEPT !.averagePrice[s] =
        [j \in 1..Len(avprice) |->
           LET near == NeighbourPrices(st, sys, avprice[j].name, 1)
           IN [avprice[j] EXCEPT
                 !.sum = IF near.n # 0 THEN QMul(near.price, Q(1, near.n))
                         ELSE avprice[j].price]]]

\* An update that blends with the average of the system as Pass 2 left it,
\* the mean of the neighbours left out.
economy_calcUpdatedCommodityPrice_NoNeighbours(u, st, s) ==
  LET sys == u.systems[s]
      avprice == st.averagePrice[s]
      final == [p \in DOMAIN st.cp |-> [i \in 1..Len(st.cp[p]) |->
                  LET cp == st.cp[p][i]
                      k == AvIndex(avprice, GoodName(u, p, i))
                      price == QAdd(QMul(Q(1, 4), cp.price), QMul(Q(3, 4), avprice[k].price))
                      variation == QMul(Q(1, 10),
                                        QAdd(QMul(Q(1, 2), avprice[k].planetVariation),
                                             QMul(Q(1, 2), cp.planetVariation)))
                  IN IF k = 0 THEN cp
                     ELSE [cp EXCEPT !.price = price,
                                     !.planetVariation = QMul(variation, price),
                                     !.sysVariation = QMul(@, price)]]]
  IN [cp |-> OnPlanetsOf(st.cp, sys, final),
      averagePrice |-> [st.averagePrice EXCEPT ![s] = << >>]]

\* economy_calcUpdatedCommodityPrice( sys ); the averagePrice of sys is freed.
economy_calcUpdatedCommodityPrice(u, st, s) ==
  LET sys == u.systems[s]
      avprice == [j \in 1..Len(st.averagePrice[s]) |->
                    [st.averagePrice[s][j] EXCEPT
                       !.price = QMul(Q(1, 2), QAdd(@, st.averagePrice[s][j].sum))]]
      final == [p \in DOMAIN st.cp |-> [i \in 1..Len(st.cp[p]) |->
                  LET cp == st.cp[p][i]
                      k == AvIndex(avprice, GoodName(u, p, i))
                      price == QAdd(QMul(Q(1, 4), cp.price), QMul(Q(3, 4), avprice[k].price))
                      variation == QMul(Q(1, 10),
                                        QAdd(QMul(Q(1, 2), avprice[k].planetVariation),
                                             QMul(Q(1, 2), cp.planetVariation)))
                  IN IF k = 0 THEN cp
                     ELSE [cp EXCEPT !.price = price,
                                     !.planetVariation = QMul(variation, price),
                                     !.sysVariation = QMul(@, price)]]]
  IN [cp |-> OnPlanetsOf(st.cp, sys, final),
      averagePrice |-> [st.averagePrice EXCEPT ![s] = << >>]]

\* The call the loop named pass makes for system s.
SystemPass(pass, u, st, s) ==
  CASE pass = "modify" -> economy_modifySystemCommodityPrice(u, st, s)
    [] pass = "smooth" -> economy_smoothCommodityPrice(u, st, s)
    [] pass = "update" -> economy_calcUpdatedCommodityPrice(u, st, s)

\* The second, third or fourth loop over the systems, from system i on.
RECURSIVE ForSystems(_, _, _, _)
ForSystems(u, st, pass, i) ==
  IF i > Len(u.systems) THEN st
  ELSE ForSystems(u, SystemPass(pass, u, st, i), pass, i + 1)

\* The fields and the averagePrice of the systems after each of the four
\* loops of economy_initialiseCommodityPrices, from the fields cps.
PipelineStages(u, cps) ==
  LET st1 == [cp |-> CalcPrices(u, cps),
              averagePrice |-> [k \in 1..Len(u.systems) |-> << >>]]
      st2 == ForSystems(u, st1, "modify", 1)
      st3 == ForSystems(u, st2, "smooth", 1)
      st4 == ForSystems(u, st3, "update", 1)
  IN [st1 |-> st1, st2 |-> st2, st3 |-> st3, st4 |-> st4]

\* The fields economy_initialiseCommodityPrices leaves, from the fields cps.
InitialisedPrices(u, cps) == PipelineStages(u, cps).st4.cp

\* economy_initialiseCommodityPrices(), run once when the universe is loaded;
\* it ends by freeing the modifier lists of the goods.  arg keeps the
\* universe it read.
economy_initialiseCommodityPrices ==
  /\ universe # << >>
  /\ op = "none"
  /\ commodityPrice' = InitialisedPrices(universe, commodityPrice)
  /\ universe' = [universe EXCEPT !.commodities =
                    [k \in 1..Len(@) |-> [@[k] EXCEPT !.planet_modifier = << >>,
                                                       !.faction_modifier = << >>]]]
  /\ Called("initialiseCommodityPrices", universe)
  /\ res' = NoRes
  /\ pre' = NoPre
  /\ upd' = NoUpd
  /\ UNCHANGED << now, lastPurchasePrice, saved, atSave, jumps, econ_initialized,
                  econ_queued, econ_G, prices, env >>

\* The clock advances by one STP (a landing or a take-off).
Tick ==
  /\ now < MaxTime * NT_STP
  /\ now' = now + NT_STP
  /\ Called("tick", NoArg)
  /\ res' = NoRes
  /\ pre' = NoPre
  /\ NoSave
  /\ NoEcon
  /\ UNCHANGED << commodityPrice, lastPurchasePrice >>

\* The attributes of system s as the universe was loaded.
LoadedEnv(s) ==
  [nebu_density |-> systems_stack[s].nebu_density,
   nebu_volatility |-> systems_stack[s].nebu_volatility,
   faction |-> systems_stack[s].faction]

\* The state after construction, but for the world and its Price Fields.
InitOther ==
  /\ now = 0
  /\ lastPurchasePrice = [k \in Goods |-> 0]
  /\ op = "none"
  /\ arg = NoArg
  /\ again = FALSE
  /\ res = NoRes
  /\ pre = NoPre
  /\ saved = << >>
  /\ atSave = NoPre
  /\ jumps = [s \in Systems |-> systems_stack[s].jumps]
  /\ econ_initialized = 0
  /\ econ_queued = 0
  /\ econ_G = << >>
  /\ prices = [s \in Systems |-> << >>]
  /\ upd = NoUpd

\* The state after construction and the initializer pipeline, but for the
\* attributes of the systems.
InitEconomy ==
  /\ InitOther
  /\ commodityPrice = [p \in Planets |-> [i \in 1..ncommodities(p) |-> NewField(p, i)]]
  /\ universe = << >>

\* The goods of the universes the pipeline is run on: one good with
\* reference price 100 and a modifier for planets of class M.
Catalog ==
  << [name |-> "Ore", price |-> 100, period |-> 20, population_modifier |-> Q(1, 2),
      planet_modifier |-> << [name |-> "M", value |-> Q(3, 2)] >>,
      faction_modifier |-> << >>] >>

PlanetValues ==
  [class : {"M", "K"}, faction : {"Empire"}, population : {0, RefPopulation},
   presenceRange : {0, 30, 60}, gfx_exterior : {19}, commodities : {<<1>>}]

\* System s with its one planet, and a jump to system t or none; the first
\* system may have interference, the second volatility.
SystemValues(s, t) ==
  [radius : {0, 400000},
   nebu_volatility : IF s = 2 THEN {0, 600} ELSE {0},
   interference : IF s = 1 THEN {0, 1000} ELSE {0},
   jumps : {<< >>, <<t>>}, planets : {<<s>>}]

\* Two systems of one planet each, apart or joined by a route stored in both.
Universes ==
  { [commodities |-> Catalog, planets |-> <<p1, p2>>, systems |-> <<s1, s2>>] :
      p1 \in PlanetValues, p2 \in PlanetValues,
      s1 \in SystemValues(1, 2),
      s2 \in SystemValues(2, 1) }

\* The field of a good before the pipeline: the reference price of the good,
\* the rest not yet set.
ReferenceField(commodity) ==
  [price |-> Whole(commodity.price),
   planetVariation |-> Whole(0), planetPeriod |-> Whole(0),
   sysVariation |-> Whole(0), sysPeriod |-> Whole(0),
   cnt |-> 0, sum |-> 0, sum2 |-> 0, updateTime |-> 0]

\* The fields of the planets of the universe u before the pipeline.
ReferenceFields(u) ==
  [p \in 1..Len(u.planets) |->
     [i \in 1..Len(u.planets[p].commodities) |->
        ReferenceField(u.commodities[u.planets[p].commodities[i]])]]

\* The state in which the universe is loaded and the initializer pipeline is
\* to run.
InitPipeline ==
  /\ InitOther
  /\ env = [s \in Systems |-> LoadedEnv(s)]
  /\ universe \in Universes
  /\ commodityPrice = ReferenceFields(universe)

\* Two goods, the first with a modifier for planets of class M and one for
\* planets of the Empire.
NetworkCatalog ==
  << [name |-> "Ore", price |-> 100, period |-> 20, population_modifier |-> Q(1, 2),
      planet_modifier |-> << [name |-> "M", value |-> Q(3, 2)] >>,
      faction_modifier |-> << [name |-> "Empire", value |-> Whole(2)] >>],
     [name |-> "Food", price |-> 40, period |-> 30, population_modifier |-> Q(-1, 4),
      planet_modifier |-> << >>,
      faction_modifier |-> << >>] >>

\* Three systems with different attributes, the first with two planets, the
\* planets offering one good or both, the routes stored in one direction, in
\* both or not at all.
Networks ==
  { [commodities |-> NetworkCatalog,
     planets |->
       << [class |-> c, faction |-> "Empire", population |-> 0, presenceRange |-> 0,
           gfx_exterior |-> 19, commodities |-> g1],
          [class |-> "K", faction |-> "Pirate", population |-> RefPopulation,
           presenceRange |-> 3, gfx_exterior |-> 19, commodities |-> g2],
          [class |-> "M", faction |-> "Empire", population |-> RefPopulation,
           presenceRange |-> 0, gfx_exterior |-> 29, commodities |-> g3],
          [class |-> "K", faction |-> "Empire", population |-> 0, presenceRange |-> 6,
           gfx_exterior |-> 19, commodities |-> g4] >>,
     systems |->
       << [radius |-> 0, nebu_volatility |-> 0, interference |-> 0,
           jumps |-> j1, planets |-> <<1, 2>>],
          [radius |-> 0, nebu_volatility |-> 0, interference |-> 1000,
           jumps |-> j2, planets |-> <<3>>],
          [radius |-> 20000, nebu_volatility |-> 600, interference |-> 0,
           jumps |-> j3, planets |-> <<4>>] >>] :
      c \in {"M", "K"},
      g1 \in {<<1>>, <<2>>, <<1, 2>>}, g2 \in {<<1>>, <<1, 2>>},
      g3 \in {<<1>>, <<2>>, <<1, 2>>}, g4 \in {<<1>>, <<2, 1>>},
      j1 \in {<< >>, <<2>>, <<2, 3>>}, j2 \in {<< >>, <<1>>, <<3, 1>>},
      j3 \in {<< >>, <<1>>} }

\* The state in which a network of three systems is loaded and the
\* initializer pipeline is to run.
InitNetwork ==
  /\ InitOther
  /\ env = [s \in Systems |-> LoadedEnv(s)]
  /\ universe \in Networks
  /\ commodityPrice = ReferenceFields(universe)

Init ==
  /\ InitEconomy
  /\ env = [s \in Systems |-> LoadedEnv(s)]

\* The attributes a system can have: density and volatility in steps of
\* NebulaStep, no faction (-1) or one of the three factions.
NebulaStep == 300

Factions == {-1, 1, 2, 3}

EnvValues ==
  [nebu_density : { NebulaStep * k : k \in 0..MaxNebula },
   nebu_volatility : { NebulaStep * k : k \in 0..MaxNebula },
   faction : Factions]

\* Universes whose systems with planets have any of these attributes.
InitGraph ==
  /\ InitEconomy
  /\ env \in { e \in [Systems -> EnvValues] :
                \A s \in Systems : systems_stack[s].planets = << >> => e[s] = LoadedEnv(s) }

Times == { k * NT_STP : k \in 0..MaxTime }

\* The observation tracker and its queries.
NextObs ==
  \/ Tick
  \/ \E p \in Planets : ~Elsewhere(p) /\ economy_averageSeenPrices(p)
  \/ \E p \in Planets, t \in Times :
        ~Elsewhere(p) /\ economy_averageSeenPricesAtTime(p, t)
  \/ \E p \in Planets, k \in Goods : economy_getAveragePlanetPrice(k, p)
  \/ economy_clearKnown

SpecObs == Init /\ [][NextObs]_vars

\* The observation tracker and its persistence.
NextSave ==
  \/ Tick
  \/ \E p \in Planets : ~Elsewhere(p) /\ economy_averageSeenPrices(p)
  \/ \E p \in Planets, k \in Goods : PlayerBuys(k, p)
  \/ economy_clearKnown
  \/ economy_sysSave
  \/ economy_sysLoad

SpecSave == Init /\ [][NextSave]_vars

\* A game is played and saved, the data of the game changes, and the saved
\* document is loaded.
NextLoad ==
  \/ saved = << >> /\ Tick
  \/ \E p \in Planets : saved = << >> /\ ~Elsewhere(p) /\ economy_averageSeenPrices(p)
  \/ \E p \in Planets, k \in Goods : saved = << >> /\ PlayerBuys(k, p)
  \/ economy_sysSave
  \/ SaveOutdated
  \/ economy_sysLoad

SpecLoad == Init /\ [][NextLoad]_vars

\* The solver.
NextEcon ==
  \/ \E oks \in Oks : economy_init(oks)
  \/ economy_addQueuedUpdate
  \/ \E oks \in Oks : economy_execQueued(oks)
  \/ \E oks \in Oks : economy_refresh(oks)
  \/ \E dt \in {0, NT_STP}, oks \in Oks : economy_update(dt, oks)
  \/ economy_destroy
  \/ \E a, b \in Systems : UniverseChanges(a, b)

SpecEcon == Init /\ [][NextEcon]_vars

\* Every solve succeeds.
AllOk == [j \in 1..econ_nprices |-> TRUE]

\* Building the matrix from systems of every kind.
NextGraph ==
  \/ economy_init(AllOk)
  \/ economy_refresh(AllOk)
  \/ economy_destroy

SpecGraph == InitGraph /\ [][NextGraph]_vars

\* The queries, on an economy that can be initialized, every solve
\* succeeding, and have one update queued.
NextQuery ==
  \/ Tick
  \/ \E p \in Planets : ~Elsewhere(p) /\ economy_averageSeenPrices(p)
  \/ \E k \in Goods, p \in Planets, t \in Times : PriceAtTime(k, p, t)
  \/ \E p \in Planets, k \in Goods : economy_getAveragePlanetPrice(k, p)
  \/ \E k \in Goods : economy_getAveragePrice(k)
  \/ economy_init(AllOk)
  \/ econ_queued = 0 /\ economy_addQueuedUpdate

SpecQuery == Init /\ [][NextQuery]_vars

\* The solver at work while a game is played, saved, cleared and loaded.
NextFrame ==
  \/ saved = << >> /\ Tick
  \/ \E p \in Planets : saved = << >> /\ ~Elsewhere(p) /\ economy_averageSeenPrices(p)
  \/ economy_clearKnown
  \/ economy_sysSave
  \/ economy_sysLoad
  \/ economy_init(AllOk)
  \/ economy_addQueuedUpdate
  \/ economy_execQueued(AllOk)
  \/ economy_refresh(AllOk)
  \/ economy_update(NT_STP, AllOk)
  \/ economy_destroy

SpecFrame == Init /\ [][NextFrame]_vars

\* The initializer pipeline on a loaded universe.
NextPipeline == economy_initialiseCommodityPrices

SpecPipeline == InitPipeline /\ [][NextPipeline]_vars

SpecNetwork == InitNetwork /\ [][NextPipeline]_vars

Next ==
  \/ NextObs
  \/ NextSave
  \/ NextEcon
  \/ NextQuery
  \/ NextLoad
  \/ NextGraph
  \/ NextFrame
  \/ NextPipeline

Spec == Init /\ [][Next]_vars

(***************************************************************************)
(* Properties of the observation tracker.                                  *)
(***************************************************************************)
RecorderOps == {"averageSeenPrices", "averageSeenPricesAtTime"}

\* Whether planet p carries a Price Field for good k.
HasField(p, k) ==
  /\ p \in Planets
  /\ k \in Goods
  /\ Priced(k)
  /\ PlanetIndex(p, commodity_stack[k].name) <= ncommodities(p)

\* The field of good k on planet p.
FieldOf(cps, p, k) == cps[p][PlanetIndex(p, commodity_stack[k].name)]

\* C1: a recorder called a second time in a row for the same planet while the
\* current time stays the same leaves every accumulator and every
\* updateTime as the first call left it.
C1_RecordTwiceSameInstant ==
  [][ (op \in RecorderOps /\ op' = op /\ arg'.p = arg.p /\ now' = now)
        => commodityPrice' = commodityPrice ]_vars

\* A second call in a row found the fields of its planet recorded at this instant.
C1_Witness ==
  /\ op = "averageSeenPrices"
  /\ again
  /\ \E i \in 1..ncommodities(arg.p) :
       /\ commodityPrice[arg.p][i].cnt >= 1
       /\ commodityPrice[arg.p][i].updateTime = now

\* What recordObservation does to the fields of planet p when it gates on time
\* `gate`, evaluates the price at time `at` and stores time `stored`.
Recorded(p, gate, at, stored) ==
  \A i \in 1..ncommodities(p) :
    LET old == commodityPrice[p][i]
        new == commodityPrice'[p][i]
        P == economy_getPriceAtTime(commodityPrice[p], planet_stack[p].commodities[i], p, at)
    IN IF old.updateTime >= gate
       THEN new = old
       ELSE new = [old EXCEPT !.cnt = @ + 1, !.sum = @ + P, !.sum2 = @ + P * P,
                              !.updateTime = stored]

\* C2 as claimed: both recorders are a no-op on a field whose updateTime is
\* not earlier than `time`, and otherwise raise cnt by 1, add the price
\* evaluated at `time` to sum and its square to sum2 and store `time`, where
\* `time` is the current time for economy_averageSeenPrices and the passed
\* timestamp for economy_averageSeenPricesAtTime.
C2_AsClaimed ==
  [][ /\ op' = "averageSeenPrices" => Recorded(arg'.p, now, now, now)
      /\ op' = "averageSeenPricesAtTime" => Recorded(arg'.p, arg'.t, arg'.t, arg'.t) ]_vars

\* C2 amended: economy_averageSeenPricesAtTime gates on the current time and
\* stores the current time; only the price is evaluated at the passed
\* timestamp.  economy_averageSeenPrices is as claimed.
C2_RecordObservation ==
  [][ /\ op' = "averageSeenPrices" => Recorded(arg'.p, now, now, now)
      /\ op' = "averageSeenPricesAtTime" => Recorded(arg'.p, now, arg'.t, now) ]_vars

\* economy_averageSeenPricesAtTime recorded, now, a price of another time.
C2_Witness ==
  /\ op = "averageSeenPricesAtTime"
  /\ arg.t # now
  /\ \E i \in 1..ncommodities(arg.p) :
       LET cp == commodityPrice[arg.p][i]
           k == planet_stack[arg.p].commodities[i]
       IN /\ cp.cnt = 1
          /\ cp.updateTime = now
          /\ cp.sum = economy_getPriceAtTime(commodityPrice[arg.p], k, arg.p, arg.t)
          /\ cp.sum # economy_getPriceAtTime(commodityPrice[arg.p], k, arg.p, now)

\* C3 as claimed: economy_getAveragePlanetPrice on a Price Field with cnt = 0
\* returns mean 0, deviation 0 and a return code other than 0, the code it
\* returns for a field with cnt > 0.
C3_AsClaimed ==
  (op = "getAveragePlanetPrice" /\ HasField(arg.p, arg.g)
     /\ FieldOf(commodityPrice, arg.p, arg.g).cnt = 0)
    => (res.mean = 0 /\ res.std = 0 /\ res.ret # 0)

\* C4: on a Price Field with exactly one recorded observation, of price P
\* (the field's price at one of the instants), economy_getAveragePlanetPrice
\* returns mean P, deviation 0 and return code 0.
C4_OneObservation ==
  (op = "getAveragePlanetPrice" /\ HasField(arg.p, arg.g)
     /\ FieldOf(commodityPrice, arg.p, arg.g).cnt = 1)
    => LET cp == FieldOf(commodityPrice, arg.p, arg.g)
       IN /\ \E t \in Times :
               cp.sum = economy_getPriceAtTime(commodityPrice[arg.p], arg.g, arg.p, t)
          /\ cp.sum >= 0
          /\ res.mean = cp.sum
          /\ res.std = 0
          /\ res.ret = 0

\* The average of a field observed once, at a price above 0, was asked for.
C4_Witness ==
  /\ op = "getAveragePlanetPrice"
  /\ HasField(arg.p, arg.g)
  /\ FieldOf(commodityPrice, arg.p, arg.g).cnt = 1
  /\ FieldOf(commodityPrice, arg.p, arg.g).sum > 0
  /\ res.mean = FieldOf(commodityPrice, arg.p, arg.g).sum

(***************************************************************************)
(* Properties of saving and loading.                                       *)
(***************************************************************************)
\* Whether every accumulator of field cp is zero.
Zeroed(cp) == cp.cnt = 0 /\ cp.sum = 0 /\ cp.sum2 = 0 /\ cp.updateTime = 0

\* Whether fields a and b have the same price parameters.
SameParams(a, b) ==
  /\ a.price = b.price
  /\ a.planetVariation = b.planetVariation
  /\ a.planetPeriod = b.planetPeriod
  /\ a.sysVariation = b.sysVariation
  /\ a.sysPeriod = b.sysPeriod

\* The planets of the systems, each with its system.
Assets == { sp \in Systems \X Planets :
              \E j \in 1..Len(systems_stack[sp[1]].planets) :
                systems_stack[sp[1]].planets[j] = sp[2] }

\* The document last saved, as the reader sees it.
SavedDoc == XmlParse(saved)

\* The child elements of e called elem whose "name" attribute is nm.
XmlNamed(doc, e, elem, nm) ==
  { c \in XmlInside(doc, e) :
      /\ doc.toks[c].t = "start"
      /\ doc.toks[c].name = elem
      /\ HasAttr(XmlNode(doc, c), "name")
      /\ NameOf(XmlNode(doc, c)) = nm }

\* The entries of a document: its economy elements, and in them the system
\* elements of system s, the planet elements of planet p, the commodity
\* elements of the i-th good of p and the lastPurchase elements of good k.
EconomyEntries(doc) ==
  { c \in XmlInside(doc, 0) : doc.toks[c].t = "start" /\ doc.toks[c].name = "economy" }

SystemEntries(doc, s) ==
  UNION { XmlNamed(doc, e, "system", systems_stack[s].name) : e \in EconomyEntries(doc) }

PlanetEntries(doc, s, p) ==
  UNION { XmlNamed(doc, e, "planet", planet_stack[p].name) : e \in SystemEntries(doc, s) }

CommodityEntries(doc, s, p, i) ==
  UNION { XmlNamed(doc, e, "commodity",
                   commodity_stack[planet_stack[p].commodities[i]].name) :
          e \in PlanetEntries(doc, s, p) }

LastPurchaseEntries(doc, k) ==
  UNION { XmlNamed(doc, e, "lastPurchase", commodity_stack[k].name) :
          e \in EconomyEntries(doc) }

\* Whether a field of planet p has been observed in cps.
SeenPlanet(cps, p) == \E i \in 1..ncommodities(p) : cps[p][i].cnt > 0

\* Whether a field of a planet of system s has been observed in cps.
SeenSystem(cps, s) == \E sp \in Assets : sp[1] = s /\ SeenPlanet(cps, sp[2])

\* C7: after economy_sysLoad of the document economy_sysSave wrote (with
\* economy_clearKnown or anything else in between), every field that had
\* cnt > 0 at the save has the cnt, sum, sum2 and updateTime it had then, and
\* so the same mean and deviation; every field that had cnt = 0 at the save
\* has cnt = 0.
C7_RoundTrip ==
  op = "sysLoad" =>
    \A p \in Planets : \A i \in 1..ncommodities(p) :
      LET was == atSave.cp[p][i]
          cp == commodityPrice[p][i]
      IN IF was.cnt > 0
         THEN /\ cp.cnt = was.cnt
              /\ cp.sum = was.sum
              /\ cp.sum2 = was.sum2
              /\ cp.updateTime = was.updateTime
              /\ MeanOf(cp) = MeanOf(was)
              /\ StdOf(cp) = StdOf(was)
         ELSE cp.cnt = 0

\* A state saved with a field observed twice was cleared and then loaded.
C7_Witness ==
  /\ op = "sysLoad"
  /\ \A p \in Planets : \A i \in 1..ncommodities(p) : Zeroed(pre.cp[p][i])
  /\ \E p \in Planets : \E i \in 1..ncommodities(p) :
       /\ atSave.cp[p][i].cnt = 2
       /\ atSave.cp[p][i].sum2 > 0
       /\ atSave.cp[p][i].updateTime > 0
       /\ commodityPrice[p][i] = atSave.cp[p][i]
  /\ \E p \in Planets : \E i \in 1..ncommodities(p) : atSave.cp[p][i].cnt = 0

\* What C8 says of the document doc written from fields cps and last
\* purchase prices lpp.
Written(doc, cps, lpp) ==
  /\ Cardinality(EconomyEntries(doc)) = 1
  /\ \A sp \in Assets : \A i \in 1..ncommodities(sp[2]) :
       Cardinality(CommodityEntries(doc, sp[1], sp[2], i))
         = IF cps[sp[2]][i].cnt > 0 THEN 1 ELSE 0
  /\ \A sp \in Assets :
       Cardinality(PlanetEntries(doc, sp[1], sp[2]))
         = IF SeenPlanet(cps, sp[2]) THEN 1 ELSE 0
  /\ \A s \in Systems :
       Cardinality(SystemEntries(doc, s)) = IF SeenSystem(cps, s) THEN 1 ELSE 0
  /\ \A k \in Goods :
       Cardinality(LastPurchaseEntries(doc, k)) = IF lpp[k] > 0 THEN 1 ELSE 0
  /\ { j \in 1..Len(doc.toks) : doc.toks[j].t = "start" }
       = EconomyEntries(doc)
         \cup UNION { LastPurchaseEntries(doc, k) : k \in Goods }
         \cup UNION { SystemEntries(doc, s) : s \in Systems }
         \cup UNION { PlanetEntries(doc, sp[1], sp[2]) : sp \in Assets }
         \cup UNION { UNION { CommodityEntries(doc, sp[1], sp[2], i) :
                              i \in 1..ncommodities(sp[2]) } : sp \in Assets }

\* Whether every element the calls toks open is closed, and none is closed
\* that was not opened.
Balanced(toks) ==
  /\ Cardinality({ j \in 1..Len(toks) : toks[j].t = "start" })
       = Cardinality({ j \in 1..Len(toks) : toks[j].t = "end" })
  /\ \A j \in 1..Len(toks) :
       Cardinality({ k \in 1..j : toks[k].t = "start" })
         >= Cardinality({ k \in 1..j : toks[k].t = "end" })

\* C8: economy_sysSave writes a commodity entry for a field exactly when its
\* cnt > 0, a planet element exactly when a field of the planet has cnt > 0,
\* a system element exactly when a planet of the system has one, a
\* lastPurchase entry for a good exactly when its last purchase price is
\* above 0, and nothing else; it closes every element it opens and leaves
\* the fields and the last purchase prices as they were before it.
C8_SaveWrites ==
  op = "sysSave" =>
    /\ Written(SavedDoc, pre.cp, pre.lpp)
    /\ Balanced(saved)
    /\ commodityPrice = pre.cp
    /\ lastPurchasePrice = pre.lpp

\* A state was saved in which one planet of a system was observed and the
\* other not, a whole system was not, one good was bought and another not.
C8_Witness ==
  /\ op = "sysSave"
  /\ \E sp, sq \in Assets :
       /\ sp[1] = sq[1]
       /\ SeenPlanet(commodityPrice, sp[2])
       /\ ~SeenPlanet(commodityPrice, sq[2])
       /\ PlanetEntries(SavedDoc, sp[1], sp[2]) # {}
  /\ \E s \in Systems : ~SeenSystem(commodityPrice, s)
  /\ \E k \in Goods : lastPurchasePrice[k] > 0 /\ LastPurchaseEntries(SavedDoc, k) # {}
  /\ \E k \in Goods : lastPurchasePrice[k] = 0

\* C9: after economy_sysLoad, whatever the state before it, every field with
\* no commodity entry in the document has cnt, sum, sum2 and updateTime 0
\* and every field with an entry has the values of the entry; every good
\* with no lastPurchase entry has last purchase price 0 and every good with
\* one has the price of the entry; the price parameters are as before.
C9_LoadFrame ==
  op = "sysLoad" =>
    /\ \A sp \in Assets : \A i \in 1..ncommodities(sp[2]) :
         LET E == CommodityEntries(SavedDoc, sp[1], sp[2], i)
             cp == commodityPrice[sp[2]][i]
         IN /\ SameParams(cp, pre.cp[sp[2]][i])
            /\ IF E = {} THEN Zeroed(cp)
               ELSE \E e \in E :
                      /\ cp.sum = Atof(AttrOf(XmlNode(SavedDoc, e), "sum"))
                      /\ cp.sum2 = Atof(AttrOf(XmlNode(SavedDoc, e), "sum2"))
                      /\ cp.cnt = Atoi(AttrOf(XmlNode(SavedDoc, e), "cnt"))
                      /\ cp.updateTime = Atol(AttrOf(XmlNode(SavedDoc, e), "time"))
    /\ \A k \in Goods :
         LET E == LastPurchaseEntries(SavedDoc, k)
         IN IF E = {} THEN lastPurchasePrice[k] = 0
            ELSE \E e \in E : lastPurchasePrice[k] = Atol(xml_raw(XmlNode(SavedDoc, e)))

\* A document was loaded over a state that had an observed field and a
\* bought good the document has no entry for, and the document has entries.
C9_Witness ==
  /\ op = "sysLoad"
  /\ \E sp \in Assets : \E i \in 1..ncommodities(sp[2]) :
       /\ pre.cp[sp[2]][i].cnt > 0
       /\ CommodityEntries(SavedDoc, sp[1], sp[2], i) = {}
       /\ Zeroed(commodityPrice[sp[2]][i])
  /\ \E sp \in Assets : \E i \in 1..ncommodities(sp[2]) :
       /\ CommodityEntries(SavedDoc, sp[1], sp[2], i) # {}
       /\ commodityPrice[sp[2]][i].cnt > 0
  /\ \E k \in Goods :
       /\ pre.lpp[k] > 0
       /\ LastPurchaseEntries(SavedDoc, k) = {}
       /\ lastPurchasePrice[k] = 0

\* C10: after economy_clearKnown every field of every planet of every system
\* has cnt, sum, sum2 and updateTime 0, every good of the catalog, priced or
\* not, has last purchase price 0, and every field has the price parameters
\* it had before.
C10_ClearKnown ==
  op = "clearKnown" =>
    /\ \A sp \in Assets : \A i \in 1..ncommodities(sp[2]) :
         /\ Zeroed(commodityPrice[sp[2]][i])
         /\ SameParams(commodityPrice[sp[2]][i], pre.cp[sp[2]][i])
    /\ \A k \in 1..commodity_nstack : lastPurchasePrice[k] = 0

\* A state with an observed field and a bought good was cleared.
C10_Witness ==
  /\ op = "clearKnown"
  /\ \E p \in Planets : \E i \in 1..ncommodities(p) :
       pre.cp[p][i].cnt > 0 /\ pre.cp[p][i].price > 0 /\ Zeroed(commodityPrice[p][i])
  /\ \E k \in Goods : pre.lpp[k] > 0 /\ lastPurchasePrice[k] = 0

(***************************************************************************)
(* Properties of the solver.                                               *)
(***************************************************************************)
\* C5 as claimed: after a solve pass of economy_update, every good whose
\* solve failed has been warned about and every system's potential for it
\* is the one the system had when the pass began.
C5_AsClaimed ==
  upd.passes > 0 =>
    \A j \in upd.failed :
      /\ j \in upd.warned
      /\ \A s \in Systems : prices[s][j] = upd.before[s][j]

\* C6: each economy_addQueuedUpdate raises the queue counter by one; an
\* economy_execQueued on an initialized economy with the counter at 1 or more
\* rebuilds the matrix once, from the universe as it is, runs one solve pass
\* and leaves the counter at 0; an economy_execQueued right after another on
\* an initialized economy rebuilds nothing, runs no solve pass and changes
\* neither the matrix, nor the potentials, nor the counter.
C6_QueuedRefresh ==
  [][ /\ op' = "addQueuedUpdate" => econ_queued' = econ_queued + 1
      /\ (op' = "execQueued" /\ econ_initialized = 1 /\ econ_queued >= 1)
           => /\ upd'.rebuilds = 1
              /\ upd'.passes = 1
              /\ econ_queued' = 0
              /\ econ_G' = econ_createGMatrix(jumps)
      /\ (op' = "execQueued" /\ op = "execQueued" /\ econ_initialized = 1)
           => /\ upd'.rebuilds = 0
              /\ upd'.passes = 0
              /\ UNCHANGED << econ_queued, econ_G, prices >> ]_vars

\* economy_execQueued found two requests queued on an initialized economy,
\* in a universe where Vega has gained a jump, and refreshed it.
C6_Witness ==
  /\ op = "execQueued"
  /\ econ_initialized = 1
  /\ upd.queued = 2
  /\ upd.rebuilds = 1
  /\ upd.passes = 1
  /\ econ_queued = 0
  /\ Len(jumps[2]) = 2
  /\ econ_G = econ_createGMatrix(jumps)

(***************************************************************************)
(* Properties of the queries.                                              *)
(***************************************************************************)
\* What a query leaves alone: the fields, the last purchase prices, the
\* clock, the saved document and the whole state of the solver.
QueryFrame ==
  UNCHANGED << now, commodityPrice, lastPurchasePrice, saved, atSave, jumps,
               econ_initialized, econ_queued, econ_G, prices >>

\* C11: econ_comm holds exactly the goods with price > 0, and a price query
\* for a good and a planet without a Price Field (the good is not in
\* econ_comm, or the planet does not offer it) returns the lookup-miss
\* result, price 0 from economy_getPriceAtTime and mean 0, deviation 0 and
\* return code -1 from economy_getAveragePlanetPrice, and changes no state.
C11_LookupMiss ==
  [][ /\ \A k \in Goods : Priced(k) <=> commodity_stack[k].price > 0
      /\ (op' = "getPriceAtTime" /\ ~HasField(arg'.p, arg'.g))
           => (res'.mean = 0 /\ QueryFrame)
      /\ (op' = "getAveragePlanetPrice" /\ ~HasField(arg'.p, arg'.g))
           => (res' = [mean |-> 0, std |-> 0, ret |-> -1] /\ QueryFrame) ]_vars

\* The average of a good without a Price Field on the planet was asked for
\* on a planet with recorded observations of another good.
C11_Witness ==
  /\ op = "getAveragePlanetPrice"
  /\ ~HasField(arg.p, arg.g)
  /\ res.ret = -1
  /\ SeenPlanet(commodityPrice, arg.p)

\* C15: economy_getPriceAtTime changes no Price Field parameter, no
\* accumulator, no potential and not the queue counter, and a call that
\* repeats the call before it (same good, planet and time, and so the same
\* Price Field) returns what that call returned.
C15_PureEvaluator ==
  [][ op' = "getPriceAtTime" => (QueryFrame /\ (again' => res' = res)) ]_vars

\* The price of an observed field was asked for twice in a row on an
\* initialized economy with an update queued, and was above 0.
C15_Witness ==
  /\ op = "getPriceAtTime"
  /\ again
  /\ HasField(arg.p, arg.g)
  /\ res.mean > 0
  /\ FieldOf(commodityPrice, arg.p, arg.g).cnt > 0
  /\ econ_initialized = 1
  /\ econ_queued > 0

\* The fields of good k with cnt > 0.
ObservedFields(k) ==
  { commodityPrice[p][PlanetIndex(p, commodity_stack[k].name)] :
      p \in { q \in Planets : HasField(q, k) /\ FieldOf(commodityPrice, q, k).cnt > 0 } }

\* C16 as claimed: economy_getAveragePrice for a priced good, when no field of
\* the good has cnt > 0, returns mean 0, deviation 0 and a return code other
\* than 0, the code it returns when a field has cnt > 0.
C16_AsClaimed ==
  (op = "getAveragePrice" /\ Priced(arg.g))
    => IF ObservedFields(arg.g) = {}
       THEN res.mean = 0 /\ res.std = 0 /\ res.ret # 0
       ELSE res.ret = 0

(***************************************************************************)
(* Properties of the network model and of the matrix.                      *)
(***************************************************************************)
\* The value of the assembled matrix at (i, j): the sum of the entries k.. of
\* G made at that place.
RECURSIVE EntryFrom(_, _, _, _)
EntryFrom(G, i, j, k) ==
  IF k > Len(G) THEN 0
  ELSE (IF G[k].i = i /\ G[k].j = j THEN G[k].x ELSE 0) + EntryFrom(G, i, j, k + 1)

Entry(G, i, j) == EntryFrom(G, i, j, 1)

\* The sum of |Entry(G, i, j)| over the j of S.
RECURSIVE OffDiagonal(_, _, _)
OffDiagonal(G, i, S) ==
  IF S = {} THEN 0
  ELSE LET j == MinOf(S)
       IN Abs(Entry(G, i, j)) + OffDiagonal(G, i, S \ {j})

\* Whether system s has no jump and is the target of no jump.
Isolated(s) ==
  /\ jumps[s] = << >>
  /\ \A t \in Systems : \A j \in 1..Len(jumps[t]) : jumps[t][j] # s

\* The self-damping conductance 1/ECON_SELF_RES.
SelfConductance == Siemens \div ECON_SELF_RES

\* C12: in the matrix econ_createGMatrix has just built, the only entry in
\* the row and in the column of an isolated system is its diagonal entry,
\* which is 1/ECON_SELF_RES > 0: neither its row nor its column is zero.
C12_IsolatedRow ==
  upd.rebuilds > 0 =>
    \A s \in Systems :
      Isolated(s) =>
        /\ \A k \in 1..Len(econ_G) :
             (econ_G[k].i = s \/ econ_G[k].j = s) => (econ_G[k].i = s /\ econ_G[k].j = s)
        /\ \A t \in Systems \ {s} : Entry(econ_G, s, t) = 0 /\ Entry(econ_G, t, s) = 0
        /\ Entry(econ_G, s, s) = SelfConductance
        /\ SelfConductance > 0

\* The matrix was rebuilt in a universe where Void is isolated and the other
\* systems are joined.
C12_Witness ==
  /\ upd.rebuilds > 0
  /\ Isolated(3)
  /\ jumps[1] # << >>
  /\ econ_G = econ_createGMatrix(jumps)
  /\ Entry(econ_G, 3, 3) = SelfConductance

\* C13 as claimed: in the matrix econ_createGMatrix has just built, entries
\* at the same place added up, the diagonal entry of every row is the sum of
\* the absolute values of the other entries of the row plus 1/ECON_SELF_RES.
C13_AsClaimed ==
  upd.rebuilds > 0 =>
    \A i \in Systems :
      Entry(econ_G, i, i) = OffDiagonal(econ_G, i, Systems \ {i}) + SelfConductance

\* The resistance between systems A and B were their factions neutral to
\* each other.
NeutralR(A, B) ==
  econ_calcJumpR([A EXCEPT !.faction = 1], [B EXCEPT !.faction = 3])

\* C14: for the attributes of any two systems, density and volatility not
\* negative, econ_calcJumpR is above 0; it is the neutral value plus
\* ECON_FACTION_MOD*ECON_BASE_RES when both have a faction and the factions
\* are enemies, the neutral value minus that when both have a faction and
\* the factions are allies, the neutral value when one of them has no
\* faction or the factions are neutral; and it is the same in both
\* directions, the standings being symmetric.
C14_JumpResistance ==
  \A a, b \in Systems :
    LET A == env[a]
        B == env[b]
        R == econ_calcJumpR(A, B)
        both == A.faction # -1 /\ B.faction # -1
    IN /\ R > 0
       /\ (both /\ areEnemies(A.faction, B.faction))
            => R = NeutralR(A, B) + ECON_FACTION_MOD * ECON_BASE_RES
       /\ (both /\ ~areEnemies(A.faction, B.faction) /\ areAllies(A.faction, B.faction))
            => R = NeutralR(A, B) - ECON_FACTION_MOD * ECON_BASE_RES
       /\ (~both \/ (~areEnemies(A.faction, B.faction) /\ ~areAllies(A.faction, B.faction)))
            => R = NeutralR(A, B)
       /\ R = econ_calcJumpR(B, A)
       /\ NeutralR(A, B) = ECON_BASE_RES * 1000
                             + (A.nebu_density + B.nebu_density)
                             + 10 * (A.nebu_volatility + B.nebu_volatility)

\* The matrix was built for two hostile systems of different density and
\* volatility, and holds the conductance of the raised resistance.
C14_Witness ==
  /\ upd.rebuilds > 0
  /\ areEnemies(env[1].faction, env[2].faction)
  /\ env[1].nebu_density # env[2].nebu_density
  /\ env[1].nebu_volatility # env[2].nebu_volatility
  /\ econ_calcJumpR(env[1], env[2])
       = NeutralR(env[1], env[2]) + ECON_FACTION_MOD * ECON_BASE_RES
  /\ \E k \in 1..Len(econ_G) :
       /\ econ_G[k].i = 1
       /\ econ_G[k].j = 2
       /\ econ_G[k].x = -Trunc(Siemens * 1000, econ_calcJumpR(env[1], env[2]))

(***************************************************************************)
(* Properties of loading a document of another world.                      *)
(***************************************************************************)
\* The commodity elements of the document for the i-th good of planet p,
\* under a planet element that names p, whatever the system element names.
KnownCommodityEntries(doc, p, i) ==
  UNION { XmlNamed(doc, pe, "commodity",
                   commodity_stack[planet_stack[p].commodities[i]].name) :
          pe \in UNION { XmlNamed(doc, se, "planet", planet_stack[p].name) :
                         se \in UNION { { c \in XmlInside(doc, e) :
                                            doc.toks[c].t = "start"
                                            /\ doc.toks[c].name = "system" } :
                                        e \in EconomyEntries(doc) } } }

\* C17 as claimed: economy_sysLoad of a document with an entry that names a
\* system, a planet or a good that is not in the world dereferences no NULL
\* pointer, and applies every entry that names a planet and a good of the
\* world.
C17_AsClaimed ==
  op = "sysLoad" =>
    /\ res.ret # -1
    /\ \A p \in Planets : \A i \in 1..ncommodities(p) :
         \A e \in KnownCommodityEntries(SavedDoc, p, i) :
           commodityPrice[p][i].cnt = Atoi(AttrOf(XmlNode(SavedDoc, e), "cnt"))
    /\ \A k \in Goods :
         \A e \in LastPurchaseEntries(SavedDoc, k) :
           lastPurchasePrice[k] = Atol(xml_raw(XmlNode(SavedDoc, e)))

(***************************************************************************)
(* What the solver writes.                                                 *)
(***************************************************************************)
SolverOps == {"init", "addQueuedUpdate", "execQueued", "refresh", "update", "destroy"}

\* C18: no operation changes the base price, the amplitudes or the periods of
\* a Price Field; economy_init, economy_addQueuedUpdate, economy_execQueued,
\* economy_refresh, economy_update and economy_destroy change nothing but the
\* potentials, the matrix, the initialized flag and the queue counter; and
\* the accumulators change only in the recorders, economy_clearKnown and
\* economy_sysLoad.
C18_SolverFrame ==
  [][ /\ \A p \in Planets : \A i \in 1..ncommodities(p) :
           SameParams(commodityPrice'[p][i], commodityPrice[p][i])
      /\ op' \in SolverOps
           => UNCHANGED << now, commodityPrice, lastPurchasePrice, saved, atSave, jumps, env >>
      /\ commodityPrice' # commodityPrice
           => op' \in RecorderOps \cup {"clearKnown", "sysLoad"} ]_vars

\* A solve pass gave an economy new potentials while fields were observed.
C18_Witness ==
  /\ op \in SolverOps
  /\ upd.passes = 1
  /\ \E s \in Systems : prices[s] # upd.before[s]
  /\ \E p \in Planets : SeenPlanet(commodityPrice, p)

(***************************************************************************)
(* Properties of the initializer pipeline.                                 *)
(***************************************************************************)
\* Whether the universe u is two systems joined by one route stored in both
\* directions, alike in all the pipeline reads: one planet each offering one
\* good, no modifier of the good named after their class or faction, equal
\* population and presence range, no radius, volatility or interference.
Symmetric(u) ==
  /\ Len(u.systems) = 2
  /\ u.systems[1].jumps = <<2>>
  /\ u.systems[2].jumps = <<1>>
  /\ \A s \in 1..2 :
       /\ u.systems[s].planets = <<s>>
       /\ u.systems[s].radius = 0
       /\ u.systems[s].nebu_volatility = 0
       /\ u.systems[s].interference = 0
       /\ Len(u.planets[s].commodities) = 1
       /\ \A k \in 1..Len(u.commodities[u.planets[s].commodities[1]].planet_modifier) :
            u.commodities[u.planets[s].commodities[1]].planet_modifier[k].name
              \notin {u.planets[s].class, u.planets[s].faction}
       /\ \A k \in 1..Len(u.commodities[u.planets[s].commodities[1]].faction_modifier) :
            u.commodities[u.planets[s].commodities[1]].faction_modifier[k].name
              \notin {u.planets[s].class, u.planets[s].faction}
  /\ u.planets[1].commodities = u.planets[2].commodities
  /\ u.planets[1].population = u.planets[2].population
  /\ u.planets[1].presenceRange = u.planets[2].presenceRange

\* C19: after the pipeline has run on two alike systems joined by a route
\* stored in both directions, the one planet of the first system and the one
\* planet of the second have the same price for their good.
C19_SymmetricPrices ==
  (op = "initialiseCommodityPrices" /\ Symmetric(arg))
    => commodityPrice[1][1].price = commodityPrice[2][1].price

\* The pipeline has run on two alike systems and has moved the price off the
\* reference price of the good.
C19_Witness ==
  /\ op = "initialiseCommodityPrices"
  /\ Symmetric(arg)
  /\ commodityPrice[1][1].price # Whole(arg.commodities[1].price)
  /\ commodityPrice[1][1].price = commodityPrice[2][1].price

\* C20, as claimed: after the pipeline every field has planetVariation >= 0,
\* sysVariation >= 0, planetPeriod > 0 and sysPeriod > 0, whatever the
\* presence range and the radius.
C20_AsClaimed ==
  op = "initialiseCommodityPrices" =>
    \A p \in DOMAIN commodityPrice : \A i \in 1..Len(commodityPrice[p]) :
      /\ QNotNegative(commodityPrice[p][i].planetVariation)
      /\ QNotNegative(commodityPrice[p][i].sysVariation)
      /\ QPositive(commodityPrice[p][i].planetPeriod)
      /\ QPositive(commodityPrice[p][i].sysPeriod)

(***************************************************************************)
(* Properties of the passes of the initializer pipeline.                   *)
(***************************************************************************)
\* The pipeline has run, on the universe arg.
PipelineRan == op = "initialiseCommodityPrices"

\* The stages the pipeline went through on the universe arg.
Stages == PipelineStages(arg, ReferenceFields(arg))

\* Whether some planet of system t of the universe u offers the good `name`.
Carries(u, t, name) ==
  \E j \in 1..Len(u.systems[t].planets) :
    \E i \in 1..Len(u.planets[u.systems[t].planets[j]].commodities) :
      GoodName(u, u.systems[t].planets[j], i) = name

\* The average of the good `name` in system t at stage st.
AverageOf(st, t, name) ==
  st.averagePrice[t][CHOOSE k \in 1..Len(st.averagePrice[t]) :
                       st.averagePrice[t][k].name = name].price

\* The sum of the fractions of the sequence qs.
RECURSIVE QSum(_)
QSum(qs) == IF qs = << >> THEN Whole(0) ELSE QAdd(Head(qs), QSum(Tail(qs)))

\* The jumps of system s of u that lead to a system carrying the good `name`.
CarryingJumps(u, s, name) ==
  { i \in 1..Len(u.systems[s].jumps) : Carries(u, u.systems[s].jumps[i], name) }

\* The unweighted mean of the Pass-2 averages of the good `name` over the
\* systems adjacent to s that carry it, the Pass-2 average of s itself when
\* none does.
NeighbourMean(u, st2, s, name) ==
  LET sys == u.systems[s]
      near == CarryingJumps(u, s, name)
      each == [i \in 1..Len(sys.jumps) |->
                 IF i \in near THEN AverageOf(st2, sys.jumps[i], name) ELSE Whole(0)]
  IN IF near = {} THEN AverageOf(st2, s, name)
     ELSE QMul(QSum(each), Q(1, Cardinality(near)))

\* C21: after Pass 3 every system holds, for every good some planet of it
\* offers, the mean of the Pass-2 averages of the adjacent systems carrying
\* the good (its own Pass-2 average when none carries it), whatever its place
\* in the order of the systems; Pass 3 changes no average and no field.
C21_OneHop ==
  PipelineRan =>
    LET S == Stages
        st2 == S.st2
        st3 == S.st3
        st4 == S.st4
    IN /\ commodityPrice = st4.cp
       /\ st3.cp = st2.cp
       /\ \A s \in 1..Len(arg.systems) :
            /\ Len(st3.averagePrice[s]) = Len(st2.averagePrice[s])
            /\ \A j \in 1..Len(st2.averagePrice[s]) :
                 LET name == st2.averagePrice[s][j].name
                 IN /\ Carries(arg, s, name)
                    /\ st3.averagePrice[s][j].name = name
                    /\ st3.averagePrice[s][j].price = st2.averagePrice[s][j].price
                    /\ st3.averagePrice[s][j].sum = NeighbourMean(arg, st2, s, name)
            /\ \A k \in 1..Len(arg.commodities) :
                 Carries(arg, s, arg.commodities[k].name) =>
                   \E j \in 1..Len(st2.averagePrice[s]) :
                     st2.averagePrice[s][j].name = arg.commodities[k].name

\* The pipeline has run where one system has a good that some but not all of
\* its neighbours carry and whose neighbour mean differs from its own
\* average, and another has neighbours none of which carries its good.
C21_Witness ==
  /\ PipelineRan
  /\ LET st3 == Stages.st3
     IN /\ \E s \in 1..Len(arg.systems) : \E j \in 1..Len(st3.averagePrice[s]) :
             LET near == CarryingJumps(arg, s, st3.averagePrice[s][j].name)
             IN /\ near # {}
                /\ Cardinality(near) < Len(arg.systems[s].jumps)
                /\ st3.averagePrice[s][j].sum # st3.averagePrice[s][j].price
        /\ \E s \in 1..Len(arg.systems) : \E j \in 1..Len(st3.averagePrice[s]) :
             /\ arg.systems[s].jumps # << >>
             /\ CarryingJumps(arg, s, st3.averagePrice[s][j].name) = {}
             /\ st3.averagePrice[s][j].sum = st3.averagePrice[s][j].price

\* The sum of the fractions f[x], x in S.
RECURSIVE QSumOver(_, _)
QSumOver(S, f) ==
  IF S = {} THEN Whole(0)
  ELSE LET x == CHOOSE y \in S : TRUE IN QAdd(f[x], QSumOver(S \ {x}, f))

\* The (planet, index) pairs of the fields of system s of u for the good `name`.
Offers(u, s, name) ==
  { pi \in { u.systems[s].planets[j] : j \in 1..Len(u.systems[s].planets) } \X (1..Len(u.commodities)) :
      /\ pi[2] <= Len(u.planets[pi[1]].commodities)
      /\ GoodName(u, pi[1], pi[2]) = name }

\* The mean over the fields of system s for the good `name` of the prices
\* Pass 1 left, scaled by the attributes of the system.
LocationAverage(u, st1, s, name) ==
  LET offers == Offers(u, s, name)
      own == [pi \in offers |-> ScaledBySystem(u.systems[s], st1.cp[pi[1]][pi[2]]).price]
  IN QMul(QSumOver(offers, own), Q(1, Cardinality(offers)))

\* C22: Pass 2 leaves each field with 0.25 times its own price plus 0.75 times
\* the average of the good over the fields of its system; Pass 4 leaves it
\* with 0.25 times that blended price plus 0.75 times the new average of the
\* system, the mean of the Pass-2 average and the Pass-3 neighbour mean.
C22_Blends ==
  PipelineRan =>
    LET S == Stages
        st1 == S.st1
        st2 == S.st2
        st3 == S.st3
    IN \A s \in 1..Len(arg.systems) : \A j \in 1..Len(arg.systems[s].planets) :
         LET p == arg.systems[s].planets[j]
         IN \A i \in 1..Len(arg.planets[p].commodities) :
              LET name == GoodName(arg, p, i)
                  own == ScaledBySystem(arg.systems[s], st1.cp[p][i]).price
                  average == LocationAverage(arg, st1, s, name)
                  blended == QAdd(QMul(Q(1, 4), own), QMul(Q(3, 4), average))
                  k == CHOOSE k \in 1..Len(st3.averagePrice[s]) :
                         st3.averagePrice[s][k].name = name
                  updated == QMul(Q(1, 2), QAdd(average, st3.averagePrice[s][k].sum))
              IN /\ AverageOf(st2, s, name) = average
                 /\ st2.cp[p][i].price = blended
                 /\ commodityPrice[p][i].price =
                      QAdd(QMul(Q(1, 4), blended), QMul(Q(3, 4), updated))

\* The pipeline has run where two planets of one system offer a good at
\* different prices and the neighbours' mean of the good is not the
\* system's average: Pass 2 and Pass 4 have each moved the price.
C22_Witness ==
  /\ PipelineRan
  /\ LET S == Stages
     IN \E s \in 1..Len(arg.systems) : \E k \in 1..Len(S.st3.averagePrice[s]) :
          LET name == S.st3.averagePrice[s][k].name
              offers == Offers(arg, s, name)
          IN /\ Cardinality(offers) > 1
             /\ S.st3.averagePrice[s][k].sum # S.st3.averagePrice[s][k].price
             /\ \E pi \in offers :
                  /\ S.st1.cp[pi[1]][pi[2]].price # S.st2.cp[pi[1]][pi[2]].price
                  /\ S.st2.cp[pi[1]][pi[2]].price # commodityPrice[pi[1]][pi[2]].price

\* C23, as claimed: Pass 1 leaves each field with the reference price of its
\* good times the modifier of the planet's class, the population adjustment,
\* the value the by-faction table of the good has under the name of the
\* planet's faction (1 if it has none) and the presence discount.
C23_AsClaimed ==
  PipelineRan =>
    LET st1 == Stages.st1
    IN \A p \in 1..Len(arg.planets) : \A i \in 1..Len(arg.planets[p].commodities) :
         LET planet == arg.planets[p]
             commodity == arg.commodities[planet.commodities[i]]
         IN st1.cp[p][i].price =
              QMul(QMul(QMul(QMul(Whole(commodity.price),
                                  Modifier(commodity.planet_modifier, planet.class, 1)),
                             QAdd(Whole(1), QMul(PopulationFactor(planet.population),
                                                 commodity.population_modifier))),
                        Modifier(commodity.faction_modifier, planet.faction, 1)),
                   QAdd(Whole(1), Q(-planet.presenceRange, 30)))

(***************************************************************************)
(* Properties of the life cycle of the solver.                             *)
(***************************************************************************)
\* C24: on an economy that is not initialized economy_refresh,
\* economy_update and economy_execQueued build no matrix, run no solve pass
\* and change neither the matrix, nor the potentials, nor the queue counter;
\* economy_init then rebuilds the matrix once from the universe as it is,
\* runs one solve pass and leaves the counter at 0; economy_init on an
\* initialized economy changes nothing.
C24_LifeCycle ==
  [][ /\ (op' \in {"refresh", "update", "execQueued"} /\ econ_initialized = 0)
           => /\ upd'.rebuilds = 0
              /\ upd'.passes = 0
              /\ UNCHANGED << econ_initialized, econ_queued, econ_G, prices >>
      /\ (op' = "init" /\ econ_initialized = 0)
           => /\ upd'.rebuilds = 1
              /\ upd'.passes = 1
              /\ econ_initialized' = 1
              /\ econ_queued' = 0
              /\ econ_G' = econ_createGMatrix(jumps)
      /\ (op' = "init" /\ econ_initialized # 0)
           => /\ upd'.rebuilds = 0
              /\ upd'.passes = 0
              /\ UNCHANGED << econ_initialized, econ_queued, econ_G, prices >> ]_vars

\* economy_init has initialized an economy that was not, in a universe that
\* has changed since it was loaded and with two requests on the queue.
C24_Witness ==
  /\ op = "init"
  /\ upd.queued = 2
  /\ upd.rebuilds = 1
  /\ upd.passes = 1
  /\ econ_initialized = 1
  /\ econ_queued = 0
  /\ jumps # [s \in Systems |-> systems_stack[s].jumps]
  /\ econ_G = econ_createGMatrix(jumps)

(***************************************************************************)
(* Properties of the accumulators.                                         *)
(***************************************************************************)
\* The accumulators of the field cp are those of cnt observations: none and
\* all zero, or some and cnt * sum2 >= sum * sum.
SoundAccumulators(cp) ==
  /\ cp.cnt >= 0
  /\ cp.cnt = 0 => (cp.sum = 0 /\ cp.sum2 = 0 /\ cp.updateTime = 0)
  /\ cp.cnt * cp.sum2 >= cp.sum * cp.sum

\* C25: through recordings and economy_clearKnown every field has cnt >= 0,
\* sum, sum2 and updateTime zero when cnt is zero, and cnt * sum2 >= sum * sum,
\* so that economy_getAveragePlanetPrice never takes the root of a negative
\* number; no step but economy_clearKnown lowers the updateTime or the cnt of
\* a field.
C25_Accumulators ==
  /\ [](/\ \A f \in Fields : SoundAccumulators(commodityPrice[f[1]][f[2]])
        /\ op = "getAveragePlanetPrice" => res.std # NaN)
  /\ [][op' # "clearKnown" =>
          \A f \in Fields :
            /\ commodityPrice'[f[1]][f[2]].updateTime >= commodityPrice[f[1]][f[2]].updateTime
            /\ commodityPrice'[f[1]][f[2]].cnt >= commodityPrice[f[1]][f[2]].cnt]_vars

\* A deviation was asked, and is positive, where a field has been recorded
\* twice, at two prices and last at the current time, and another holds no
\* observation.
C25_Witness ==
  /\ op = "getAveragePlanetPrice"
  /\ res.std > 0
  /\ \E f \in Fields :
       LET cp == commodityPrice[f[1]][f[2]]
       IN /\ cp.cnt = 2
          /\ cp.cnt * cp.sum2 > cp.sum * cp.sum
          /\ cp.updateTime = now
  /\ \E f \in Fields : commodityPrice[f[1]][f[2]].cnt = 0

===============================================================================
